---------------------------- MODULE Spec2Model ----------------------------
(***************************************************************************)
(* A model of loom-api-js: the Role and AccessCheck builders and the REST  *)
(* wrappers of DataApi, EntityDataModelApi, LinkingApi and                 *)
(* DataIntegrationApi.                                                     *)
(*                                                                         *)
(* JavaScript values are records tagged by their kind ("k"); a property    *)
(* an object does not have is a key outside the DOMAIN of its map.         *)
(***************************************************************************)
EXTENDS Naturals, Sequences, FiniteSets, TLC

VARIABLES
    roleBuilder,   \* the fields of the RoleBuilder instance the client holds
    roleResult,    \* the last call made on it (or on the Role) and its outcome
    role,          \* the own properties of the Role last returned by build()
    heap,          \* the arrays the AccessCheck objects refer to, by reference
    acBuilder,     \* the fields of the AccessCheckBuilder instance
    acResult,      \* the last AccessCheck call and its outcome
    accessChecks,  \* the AccessCheck objects build() returned, oldest first
    call,          \* the API function last called, with its arguments
    promise,       \* the promise that call returned
    requests,      \* the HTTP requests that call issued
    logged         \* the Logger calls made during that call

roleVars == <<roleBuilder, roleResult, role>>
acVars   == <<heap, acBuilder, acResult, accessChecks>>
apiVars  == <<call, promise, requests, logged>>
vars     == <<roleBuilder, roleResult, role, heap, acBuilder, acResult,
              accessChecks, call, promise, requests, logged>>

---------------------------------------------------------------------------
(* JavaScript values *)

Undefined == [k |-> "undefined"]
Null      == [k |-> "null"]
Str(s)    == [k |-> "string", s |-> s]
Num(n)    == [k |-> "number", n |-> n]
Bool(b)   == [k |-> "boolean", b |-> b]
Arr(a)    == [k |-> "array", a |-> a]
Obj(o)    == [k |-> "object", o |-> o]
Imm(m)    == [k |-> "immutable", m |-> m]
Ref(r)    == [k |-> "ref", r |-> r]

\* value.key on a plain value: undefined when the property is missing
Get(value, key) ==
    IF value.k = "object" /\ key \in DOMAIN value.o THEN value.o[key] ELSE Undefined

\* value.get(key) on an Immutable.Map
ImmGet(value, key) ==
    IF key \in DOMAIN value.m THEN value.m[key] ELSE Undefined

\* !value
Falsy(value) ==
    \/ value \in {Undefined, Null, Str(""), Num(0), Bool(FALSE)}

isImmutable(value) == value.k = "immutable"

\* Immutable.fromJS: plain objects become Maps, arrays Lists, deeply
RECURSIVE fromJS(_)
fromJS(value) ==
    CASE value.k = "object" -> Imm([key \in DOMAIN value.o |-> fromJS(value.o[key])])
      [] value.k = "array"  -> [k |-> "list", a |-> [i \in DOMAIN value.a |-> fromJS(value.a[i])]]
      [] OTHER              -> value

\* the inverse, toJS()
RECURSIVE toJS(_)
toJS(value) ==
    CASE value.k = "immutable" -> Obj([key \in DOMAIN value.m |-> toJS(value.m[key])])
      [] value.k = "list"      -> Arr([i \in DOMAIN value.a |-> toJS(value.a[i])])
      [] OTHER                 -> value

---------------------------------------------------------------------------
(* utils/LangUtils, utils/ValidationUtils *)

UUID_A == "66da9306-3d1d-49d7-a8ee-8515c9c28434"
UUID_B == "a77a0f9a-0e6f-4a98-a169-4d1e122b39a3"
UUIDS  == {UUID_A, UUID_B}

isDefined(value) == value # Undefined /\ value # Null

isEmptyString(value) == value = Str("")

isNonEmptyString(value) == value.k = "string" /\ value.s # ""

isValidUUID(value) == value.k = "string" /\ value.s \in UUIDS

---------------------------------------------------------------------------
(* models/Principal *)

PRINCIPAL_TYPES == {"ORGANIZATION", "ROLE", "USER"}

MockPrincipal == Obj([id |-> Str("MockOrgRolePrincipalId"), type |-> Str("ROLE")])

\* (new PrincipalBuilder(principal)).build(): the Principal, or a throw
PrincipalBuilder_build(principal) ==
    LET p    == IF isImmutable(principal) THEN toJS(principal) ELSE principal
        id   == Get(p, "id")
        type == Get(p, "type")
    IN  IF isNonEmptyString(id) /\ type.k = "string" /\ type.s \in PRINCIPAL_TYPES
        THEN [threw |-> FALSE, value |-> Obj([id |-> id, type |-> type])]
        ELSE [threw |-> TRUE, msg |-> "invalid or missing Principal property"]

\* principal.toObject()
Principal_toObject(principal) == principal

---------------------------------------------------------------------------
(* models/Role *)

AT_CLASS == "@class"
ROLE_CLASS_PACKAGE == "com.openlattice.organization.roles.Role"

NoRole == [k |-> "none"]

\* Role with the two halves of aclKey in the wrong order
Role_aclKeySwapped(r) ==
    LET required == [organizationId |-> r.organizationId,
                     principal      |-> r.principal,
                     title          |-> r.title]
                    @@ (AT_CLASS :> Str(ROLE_CLASS_PACKAGE))
        withDescription ==
            IF isDefined(r.description)
            THEN required @@ [description |-> r.description]
            ELSE required
    IN  IF isDefined(r.id)
        THEN withDescription @@ [aclKey |-> Arr(<<r.id, r.organizationId>>), id |-> r.id]
        ELSE withDescription

\* new Role(role): the own properties of the instance
Role(r) ==
    LET required == [organizationId |-> r.organizationId,
                     principal      |-> r.principal,
                     title          |-> r.title]
                    @@ (AT_CLASS :> Str(ROLE_CLASS_PACKAGE))
        withDescription ==
            IF isDefined(r.description)
            THEN required @@ [description |-> r.description]
            ELSE required
    IN  IF isDefined(r.id)
        THEN withDescription @@ [aclKey |-> Arr(<<r.organizationId, r.id>>), id |-> r.id]
        ELSE withDescription

\* this.<key> on a Role instance
RoleGet(this, key) == IF key \in DOMAIN this THEN this[key] ELSE Undefined

\* Role.toObject()
Role_toObject(this) ==
    LET required == [organizationId |-> RoleGet(this, "organizationId"),
                     principal      |-> Principal_toObject(RoleGet(this, "principal")),
                     title          |-> RoleGet(this, "title")]
                    @@ (AT_CLASS :> Str(ROLE_CLASS_PACKAGE))
        withDescription ==
            IF isDefined(RoleGet(this, "description"))
            THEN required @@ [description |-> RoleGet(this, "description")]
            ELSE required
    IN  Obj(IF isDefined(RoleGet(this, "id"))
            THEN withDescription
                 @@ [aclKey |-> Arr(<<RoleGet(this, "organizationId"), RoleGet(this, "id")>>),
                     id     |-> RoleGet(this, "id")]
            ELSE withDescription)

\* Role.toImmutable()
Role_toImmutable(this) == fromJS(Role_toObject(this))

(* hashCode() of an Immutable value: a number fixed by the content, the    *)
(* same whatever the order of a Map's keys, and kept to HashBits bits.     *)

HashBits == 16

HashModulus == 2 ^ HashBits

HASHED_STRINGS ==
    <<AT_CLASS, ROLE_CLASS_PACKAGE, "aclKey", "description", "id", "organizationId",
      "principal", "title", "type", UUID_A, UUID_B, "MockOrgRoleDescription",
      "MockOrgRoleTitle", "MockOrgRolePrincipalId", "ROLE">>

\* the hash of a string: one number for each string
hashString(s) ==
    IF \E i \in DOMAIN HASHED_STRINGS : HASHED_STRINGS[i] = s
    THEN (7919 * (CHOOSE i \in DOMAIN HASHED_STRINGS : HASHED_STRINGS[i] = s)) % HashModulus
    ELSE 1

RECURSIVE hashCode(_)
RECURSIVE hashEntries(_, _)
RECURSIVE hashList(_)

\* a Map's entries, summed: the order does not matter
hashEntries(m, keys) ==
    IF keys = {} THEN 0
    ELSE LET key == CHOOSE key \in keys : TRUE
         IN  ((31 * hashString(key)) + hashCode(m[key])
              + hashEntries(m, keys \ {key})) % HashModulus

\* a List's elements, folded in order
hashList(elements) ==
    IF elements = <<>> THEN 1
    ELSE (31 * hashList(SubSeq(elements, 1, Len(elements) - 1))
          + hashCode(elements[Len(elements)])) % HashModulus

hashCode(value) ==
    CASE value.k = "immutable" -> hashEntries(value.m, DOMAIN value.m)
      [] value.k = "list"      -> hashList(value.a)
      [] value.k = "string"    -> hashString(value.s)
      [] value.k = "number"    -> value.n % HashModulus
      [] value.k = "boolean"   -> IF value.b THEN 1 ELSE 0
      [] OTHER                 -> 0

\* Role.valueOf()
Role_valueOf(this) == hashCode(Role_toImmutable(this))

(* RoleBuilder: a method's outcome is [threw, msg] or [threw, this], "this"   *)
(* being the builder's fields after the call.                                *)

NewRoleBuilder ==
    [description |-> Undefined, id |-> Undefined, organizationId |-> Undefined,
     principal |-> Undefined, title |-> Undefined]

Throw(msg)   == [threw |-> TRUE, msg |-> msg]
Return(this) == [threw |-> FALSE, this |-> this]

setDescription(this, description) ==
    IF ~isDefined(description) \/ isEmptyString(description)
    THEN Return(this)
    ELSE IF ~isNonEmptyString(description)
    THEN Throw("invalid parameter: \"description\" must be a non-empty string")
    ELSE Return([this EXCEPT !.description = description])

\* setId that clears the id when given nothing
setId_clearsOnEmpty(this, id) ==
    IF ~isDefined(id) \/ isEmptyString(id)
    THEN Return([this EXCEPT !.id = Undefined])
    ELSE IF ~isValidUUID(id)
    THEN Throw("invalid parameter: \"id\" must be a valid UUID")
    ELSE Return([this EXCEPT !.id = id])

setId(this, id) ==
    IF ~isDefined(id) \/ isEmptyString(id)
    THEN Return(this)
    ELSE IF ~isValidUUID(id)
    THEN Throw("invalid parameter: \"id\" must be a valid UUID")
    ELSE Return([this EXCEPT !.id = id])

setOrganizationId(this, organizationId) ==
    IF ~isValidUUID(organizationId)
    THEN Throw("invalid parameter: \"organizationId\" must be a valid UUID")
    ELSE Return([this EXCEPT !.organizationId = organizationId])

setPrincipal(this, principal) ==
    LET built == PrincipalBuilder_build(principal)
    IN  IF built.threw
        THEN Throw(built.msg)
        ELSE Return([this EXCEPT !.principal = built.value])

\* setTitle that takes any defined value
setTitle_acceptsAnyDefined(this, title) ==
    IF ~isDefined(title)
    THEN Throw("invalid parameter: \"title\" must be a non-empty string")
    ELSE Return([this EXCEPT !.title = title])

setTitle(this, title) ==
    IF ~isNonEmptyString(title)
    THEN Throw("invalid parameter: \"title\" must be a non-empty string")
    ELSE Return([this EXCEPT !.title = title])

\* the constructor's five setter calls, the first throw ending them
SetAll(this, values) ==
    LET described == setDescription(this, values.description) IN
    IF described.threw THEN described ELSE
    LET identified == setId(described.this, values.id) IN
    IF identified.threw THEN identified ELSE
    LET organized == setOrganizationId(identified.this, values.organizationId) IN
    IF organized.threw THEN organized ELSE
    LET principaled == setPrincipal(organized.this, values.principal) IN
    IF principaled.threw THEN principaled ELSE
    setTitle(principaled.this, values.title)

\* a constructor without the branch for immutable values
RoleBuilder_plainOnly(value) ==
    IF isDefined(value)
    THEN SetAll(NewRoleBuilder,
                [description    |-> Get(value, "description"),
                 id             |-> Get(value, "id"),
                 organizationId |-> Get(value, "organizationId"),
                 principal      |-> Get(value, "principal"),
                 title          |-> Get(value, "title")])
    ELSE Return(NewRoleBuilder)

\* new RoleBuilder(value)
RoleBuilder(value) ==
    IF isImmutable(value)
    THEN SetAll(NewRoleBuilder,
                [description    |-> ImmGet(value, "description"),
                 id             |-> ImmGet(value, "id"),
                 organizationId |-> ImmGet(value, "organizationId"),
                 principal      |-> ImmGet(value, "principal"),
                 title          |-> ImmGet(value, "title")])
    ELSE IF isDefined(value)
    THEN SetAll(NewRoleBuilder,
                [description    |-> Get(value, "description"),
                 id             |-> Get(value, "id"),
                 organizationId |-> Get(value, "organizationId"),
                 principal      |-> Get(value, "principal"),
                 title          |-> Get(value, "title")])
    ELSE Return(NewRoleBuilder)

\* build() without the check of title
build_noTitleCheck(this) ==
    IF Falsy(this.organizationId)
    THEN Throw("missing property: \"organizationId\" is a required property")
    ELSE IF Falsy(this.principal)
    THEN Throw("missing property: \"principal\" is a required property")
    ELSE [threw |-> FALSE,
          value |-> Role([description    |-> this.description,
                          id             |-> this.id,
                          organizationId |-> this.organizationId,
                          principal      |-> this.principal,
                          title          |-> this.title])]

\* RoleBuilder.build(): the Role, or a throw
build(this) ==
    IF Falsy(this.organizationId)
    THEN Throw("missing property: \"organizationId\" is a required property")
    ELSE IF Falsy(this.principal)
    THEN Throw("missing property: \"principal\" is a required property")
    ELSE IF Falsy(this.title)
    THEN Throw("missing property: \"title\" is a required property")
    ELSE [threw |-> FALSE,
          value |-> Role([description    |-> this.description,
                          id             |-> this.id,
                          organizationId |-> this.organizationId,
                          principal      |-> this.principal,
                          title          |-> this.title])]

(* the values the client passes *)

DescriptionArgs == {Undefined, Null, Str(""), Str("MockOrgRoleDescription"), Num(5)}
IdArgs          == {Undefined, Null, Str(""), Str("not-a-uuid"), Str(UUID_A), Str(UUID_B), Num(5)}
TitleArgs       == {Undefined, Null, Str(""), Str("MockOrgRoleTitle"), Num(5)}
PrincipalArgs   == {Undefined, MockPrincipal, fromJS(MockPrincipal),
                    Obj([id |-> Str("MockOrgRolePrincipalId")])}

\* what a client passes to new RoleBuilder(): nothing, a Role's plain or
\* immutable form, or an object short of a valid Role
RoleBuilderArgs ==
    {Undefined, Str("abc"),
     Obj([organizationId |-> Str(UUID_B), principal |-> MockPrincipal]),
     Obj([organizationId |-> Str(UUID_B), principal |-> MockPrincipal,
          title |-> Str("MockOrgRoleTitle"), id |-> Null, description |-> Str("")])}
    \cup (IF role = NoRole THEN {} ELSE {Role_toObject(role), Role_toImmutable(role)})

\* a setter call: the builder changes only when the setter returns
RoleSetterCall(op, arg, outcome) ==
    /\ roleBuilder' = IF outcome.threw THEN roleBuilder ELSE outcome.this
    /\ roleResult' = IF outcome.threw
                     THEN [op |-> op, arg |-> arg, kind |-> "threw", msg |-> outcome.msg]
                     ELSE [op |-> op, arg |-> arg, kind |-> "returned"]
    /\ UNCHANGED <<role, acVars, apiVars>>

RoleBuilder_constructor ==
    \E value \in RoleBuilderArgs :
        RoleSetterCall("new RoleBuilder", value, RoleBuilder(value))

RoleBuilder_setDescription ==
    \E description \in DescriptionArgs :
        RoleSetterCall("setDescription", description, setDescription(roleBuilder, description))

RoleBuilder_setId ==
    \E id \in IdArgs :
        RoleSetterCall("setId", id, setId(roleBuilder, id))

RoleBuilder_setOrganizationId ==
    \E organizationId \in IdArgs :
        RoleSetterCall("setOrganizationId", organizationId,
                       setOrganizationId(roleBuilder, organizationId))

RoleBuilder_setPrincipal ==
    \E principal \in PrincipalArgs :
        RoleSetterCall("setPrincipal", principal, setPrincipal(roleBuilder, principal))

RoleBuilder_setTitle ==
    \E title \in TitleArgs :
        RoleSetterCall("setTitle", title, setTitle(roleBuilder, title))

RoleBuilder_build ==
    LET outcome == build(roleBuilder)
    IN  /\ roleResult' = IF outcome.threw
                         THEN [op |-> "build", arg |-> Undefined, kind |-> "threw",
                               msg |-> outcome.msg]
                         ELSE [op |-> "build", arg |-> Undefined, kind |-> "returned",
                               value |-> outcome.value]
        /\ role' = IF outcome.threw THEN role ELSE outcome.value
        /\ UNCHANGED <<roleBuilder, acVars, apiVars>>

Role_toObject_call ==
    /\ role # NoRole
    /\ roleResult' = [op |-> "toObject", arg |-> Undefined, kind |-> "returned",
                      value |-> Role_toObject(role)]
    /\ UNCHANGED <<roleBuilder, role, acVars, apiVars>>

Role_valueOf_call ==
    /\ role # NoRole
    /\ roleResult' = [op |-> "valueOf", arg |-> Undefined, kind |-> "returned",
                      value |-> Num(Role_valueOf(role))]
    /\ UNCHANGED <<roleBuilder, role, acVars, apiVars>>

---------------------------------------------------------------------------
(* models/AccessCheck *)

(* Arrays are objects: the heap holds each array's elements and who made   *)
(* it, and Ref(i) is a reference to cell i.  Two fields holding the same   *)
(* Ref share one array.                                                    *)

PERMISSIONS == {"DISCOVER", "LINK", "OWNER", "READ", "WRITE"}

Cell(elements, madeBy) == [a |-> elements, by |-> madeBy]

\* a new array: the heap with it, and the reference to it
Alloc(h, elements, madeBy) ==
    [heap |-> Append(h, Cell(elements, madeBy)), ref |-> Ref(Len(h) + 1)]

\* an array: a reference into the heap or, where identity does not matter
\* (the arguments of the API functions), the array by value
isArray(h, value) == value.k \in {"ref", "array"}

Elements(h, value) == IF value.k = "ref" THEN h[value.r].a ELSE value.a

NoHeap == <<>>

isEmptyArray(h, value) == isArray(h, value) /\ Elements(h, value) = <<>>

isNonEmptyArray(h, value) == isArray(h, value) /\ Elements(h, value) # <<>>

isNonEmptyObject(value) == value.k = "object" /\ DOMAIN value.o # {}

isValidUuid(value) == isValidUUID(value)

isValidUuidArray(h, value) ==
    /\ isArray(h, value)
    /\ Elements(h, value) # <<>>
    /\ \A i \in DOMAIN Elements(h, value) : isValidUuid(Elements(h, value)[i])

isValidPermission(value) == value.k = "string" /\ value.s \in PERMISSIONS

isValidPermissionArray(h, value) ==
    /\ isArray(h, value)
    /\ Elements(h, value) # <<>>
    /\ \A i \in DOMAIN Elements(h, value) : isValidPermission(Elements(h, value)[i])

\* Immutable.Set().withMutations(set => elements.forEach(e => set.add(e))).toJS():
\* each distinct element once, in the order of its first occurrence
RECURSIVE SetToJS(_)
SetToJS(elements) ==
    IF elements = <<>> THEN <<>>
    ELSE LET front == SubSeq(elements, 1, Len(elements) - 1)
             last  == elements[Len(elements)]
         IN  IF \E i \in DOMAIN front : front[i] = last
             THEN SetToJS(front)
             ELSE Append(SetToJS(front), last)

\* new AccessCheck(aclKey, permissions)
AccessCheck(aclKey, permissions) == [aclKey |-> aclKey, permissions |-> permissions]

NewAccessCheckBuilder == [aclKey |-> Undefined, permissions |-> Undefined]

(* An AccessCheckBuilder method's outcome: [threw, msg], or [threw, this,   *)
(* heap] with the builder's fields and the heap after the call.            *)

ReturnAc(this, h) == [threw |-> FALSE, this |-> this, heap |-> h]

setAclKey(this, h, aclKey) ==
    IF aclKey = Undefined \/ isEmptyArray(h, aclKey)
    THEN ReturnAc(this, h)
    ELSE IF ~isValidUuidArray(h, aclKey)
    THEN Throw("invalid parameter: aclKey must be a non-empty array of valid UUIDs")
    ELSE ReturnAc([this EXCEPT !.aclKey = aclKey], h)

\* setPermissions that keeps the array as given
setPermissions_noDedup(this, h, permissions) ==
    IF permissions = Undefined \/ isEmptyArray(h, permissions)
    THEN ReturnAc(this, h)
    ELSE IF ~isValidPermissionArray(h, permissions)
    THEN Throw("invalid parameter: permissions must be a non-empty array of valid Permissions")
    ELSE LET new == Alloc(h, Elements(h, permissions), "library")
         IN  ReturnAc([this EXCEPT !.permissions = new.ref], new.heap)

setPermissions(this, h, permissions) ==
    IF permissions = Undefined \/ isEmptyArray(h, permissions)
    THEN ReturnAc(this, h)
    ELSE IF ~isValidPermissionArray(h, permissions)
    THEN Throw("invalid parameter: permissions must be a non-empty array of valid Permissions")
    ELSE LET new == Alloc(h, SetToJS(Elements(h, permissions)), "library")
         IN  ReturnAc([this EXCEPT !.permissions = new.ref], new.heap)

\* build() that hands the fields over as they are
buildAccessCheck_noDefaults(this, h) ==
    [threw |-> FALSE, this |-> this, heap |-> h,
     value |-> AccessCheck(this.aclKey, this.permissions)]

\* AccessCheckBuilder.build(): a missing field becomes a new empty array,
\* kept on the builder
buildAccessCheck(this, h) ==
    LET a     == IF Falsy(this.aclKey) THEN Alloc(h, <<>>, "library")
                 ELSE [heap |-> h, ref |-> this.aclKey]
        p     == IF Falsy(this.permissions) THEN Alloc(a.heap, <<>>, "library")
                 ELSE [heap |-> a.heap, ref |-> this.permissions]
        after == [aclKey |-> a.ref, permissions |-> p.ref]
    IN  [threw |-> FALSE, this |-> after, heap |-> p.heap,
         value |-> AccessCheck(after.aclKey, after.permissions)]

(* Arrays nothing refers to any more are dropped and the rest renumbered   *)
(* in the order the objects refer to them, so that a state is the object   *)
(* graph and not the addresses.                                            *)

RECURSIVE FirstOccurrences(_)
FirstOccurrences(s) ==
    IF s = <<>> THEN <<>>
    ELSE LET front == SubSeq(s, 1, Len(s) - 1)
         IN  IF \E i \in DOMAIN front : front[i] = s[Len(s)]
             THEN FirstOccurrences(front)
             ELSE Append(FirstOccurrences(front), s[Len(s)])

RECURSIVE FieldsOf(_)
FieldsOf(objects) ==
    IF objects = <<>> THEN <<>>
    ELSE <<objects[1].aclKey, objects[1].permissions>> \o FieldsOf(Tail(objects))

IsRef(value) == value.k = "ref"

\* the cells reachable from the builder, the AccessChecks and the last result
Live(builder, objects, result) ==
    LET returned == IF "value" \in DOMAIN result THEN <<result.value>> ELSE <<>>
    IN  FirstOccurrences(SelectSeq(FieldsOf(<<builder>> \o objects \o returned), IsRef))

Moved(live, value) ==
    IF value.k = "ref"
    THEN Ref(CHOOSE i \in DOMAIN live : live[i] = value)
    ELSE value

MovedObject(live, object) ==
    [aclKey |-> Moved(live, object.aclKey), permissions |-> Moved(live, object.permissions)]

\* the state after a call: h, builder, objects and result, garbage collected
AcAfter(h, builder, objects, result) ==
    LET live == Live(builder, objects, result)
    IN  /\ heap' = [i \in DOMAIN live |-> h[live[i].r]]
        /\ acBuilder' = MovedObject(live, builder)
        /\ accessChecks' = [i \in DOMAIN objects |-> MovedObject(live, objects[i])]
        /\ acResult' = IF "value" \in DOMAIN result
                       THEN [result EXCEPT !.value = MovedObject(live, result.value)]
                       ELSE result
        /\ UNCHANGED <<roleVars, apiVars>>

(* the values the client passes *)

MaxLen   == 2    \* the longest array the client makes
MaxBuilt == 1    \* the AccessChecks the client keeps

ArrayElements == {Str(UUID_A), Str("READ"), Str("WRITE")}

RECURSIVE SeqsUpTo(_, _)
SeqsUpTo(S, n) ==
    IF n = 0 THEN {<<>>}
    ELSE LET shorter == SeqsUpTo(S, n - 1)
         IN  shorter \cup {Append(s, e) : s \in {t \in shorter : Len(t) = n - 1}, e \in S}

\* the arrays a client writes down: UUIDs, permissions, or a mix
ArrayLiterals == SeqsUpTo(ArrayElements, MaxLen)

NonArrayArgs == {Undefined, Null, Str("READ")}

\* the argument as the call record keeps it: an array by its elements then
Snapshot(h, value) == IF value.k = "ref" THEN Arr(Elements(h, value)) ELSE value

\* a setter call with `arg`, on heap h (which holds the argument)
AcSetterCall(op, h, arg, outcome) ==
    IF outcome.threw
    THEN AcAfter(h, acBuilder, accessChecks,
                 [op |-> op, arg |-> Snapshot(h, arg), kind |-> "threw", msg |-> outcome.msg])
    ELSE AcAfter(outcome.heap, outcome.this, accessChecks,
                 [op |-> op, arg |-> Snapshot(h, arg), kind |-> "returned"])

\* new AccessCheckBuilder()
AccessCheckBuilder_constructor ==
    AcAfter(heap, NewAccessCheckBuilder, accessChecks,
            [op |-> "new AccessCheckBuilder", arg |-> Undefined, kind |-> "returned"])

\* setAclKey of an array written down for the call, of an array some object
\* already holds, or of something that is no array
AccessCheckBuilder_setAclKey ==
    \/ \E elements \in ArrayLiterals :
          LET new == Alloc(heap, elements, "client")
          IN  AcSetterCall("setAclKey", new.heap, new.ref, setAclKey(acBuilder, new.heap, new.ref))
    \/ \E aclKey \in NonArrayArgs \cup {Ref(i) : i \in DOMAIN heap} :
          AcSetterCall("setAclKey", heap, aclKey, setAclKey(acBuilder, heap, aclKey))

AccessCheckBuilder_setPermissions ==
    \/ \E elements \in ArrayLiterals :
          LET new == Alloc(heap, elements, "client")
          IN  AcSetterCall("setPermissions", new.heap, new.ref,
                           setPermissions(acBuilder, new.heap, new.ref))
    \/ \E permissions \in NonArrayArgs \cup {Ref(i) : i \in DOMAIN heap} :
          AcSetterCall("setPermissions", heap, permissions,
                       setPermissions(acBuilder, heap, permissions))

AccessCheckBuilder_build ==
    LET outcome == buildAccessCheck(acBuilder, heap)
    IN  AcAfter(outcome.heap, outcome.this, accessChecks,
                [op |-> "build", arg |-> Undefined, kind |-> "returned",
                 value |-> outcome.value])

(* what a client can do to the objects it holds, besides calling them *)

\* const accessCheck = builder.build(): the client keeps what build() returned
Client_keep ==
    /\ acResult.op = "build"
    /\ Len(accessChecks) < MaxBuilt
    /\ accessChecks' = Append(accessChecks, acResult.value)
    /\ UNCHANGED <<heap, acBuilder, acResult, roleVars, apiVars>>

\* array.push(element) on an array the client passed to a setter
Client_push ==
    \E i \in DOMAIN heap, element \in ArrayElements :
        /\ heap[i].by = "client"
        /\ Len(heap[i].a) < MaxLen
        /\ heap' = [heap EXCEPT ![i].a = Append(@, element)]
        /\ acResult' = [op |-> "push", arg |-> element, kind |-> "returned"]
        /\ UNCHANGED <<acBuilder, accessChecks, roleVars, apiVars>>

\* accessCheck.aclKey = undefined, accessCheck.permissions = undefined
Client_writeField ==
    \E i \in DOMAIN accessChecks, field \in {"aclKey", "permissions"},
       value \in {Undefined} :
        /\ accessChecks[i][field] # value
        /\ AcAfter(heap, acBuilder, [accessChecks EXCEPT ![i][field] = value],
                   [op |-> "write", arg |-> Str(field), kind |-> "returned"])

(* isValid(accessCheck) *)

\* lodash has(object, key)
has(object, key) == object.k = "object" /\ key \in DOMAIN object.o

\* new Error(msg)
Error(msg) == [k |-> "error", message |-> msg]

\* isValid(accessCheck): what it returns and what it logs; an Error thrown
\* by the builder is caught, logged with accessCheck, and answered by false
isValid(accessCheck) ==
    IF ~isDefined(accessCheck)
    THEN [threw |-> FALSE, value |-> FALSE,
          logs |-> <<[level |-> "error",
                      message |-> Str("invalid parameter: accessCheck must be defined"),
                      args |-> <<accessCheck>>]>>]
    ELSE IF ~has(accessCheck, "aclKey") \/ ~has(accessCheck, "permissions")
    THEN [threw |-> FALSE, value |-> FALSE,
          logs |-> <<[level |-> "error",
                      message |-> Str("missing properties: accessCheck is missing required properties"),
                      args |-> <<>>]>>]
    ELSE LET caught(e) == [threw |-> FALSE, value |-> FALSE,
                           logs |-> <<[level |-> "error", message |-> Error(e.msg),
                                       args |-> <<accessCheck>>]>>]
             keyed == setAclKey(NewAccessCheckBuilder, NoHeap, Get(accessCheck, "aclKey"))
         IN  IF keyed.threw THEN caught(keyed)
             ELSE LET permitted == setPermissions(keyed.this, keyed.heap,
                                                  Get(accessCheck, "permissions"))
                  IN  IF permitted.threw THEN caught(permitted)
                      ELSE LET built == buildAccessCheck(permitted.this, permitted.heap)
                           IN  IF built.threw THEN caught(built)
                               ELSE [threw |-> FALSE, value |-> TRUE, logs |-> <<>>]

\* what a client passes for aclKey and for permissions
FieldArgs == NonArrayArgs \cup {Arr(a) : a \in ArrayLiterals}

AccessCheckArgs ==
    {Undefined, Null, Str("READ"), Obj(<<>>)}
    \cup {Obj([aclKey |-> aclKey]) : aclKey \in FieldArgs}
    \cup {Obj([permissions |-> permissions]) : permissions \in FieldArgs}
    \cup {Obj([aclKey |-> aclKey, permissions |-> permissions]) :
             aclKey \in FieldArgs, permissions \in FieldArgs}

AccessCheck_isValid ==
    \E accessCheck \in AccessCheckArgs :
        LET outcome == isValid(accessCheck)
        IN  /\ acResult' = IF outcome.threw
                           THEN [op |-> "isValid", arg |-> accessCheck, kind |-> "threw",
                                 msg |-> outcome.msg]
                           ELSE [op |-> "isValid", arg |-> accessCheck, kind |-> "returned",
                                 value |-> outcome.value, logs |-> outcome.logs]
            /\ UNCHANGED <<heap, acBuilder, accessChecks, roleVars, apiVars>>

---------------------------------------------------------------------------
(* the HTTP client (axios) and the promise an API function returns *)

DigitString == <<"0", "1", "2", "3", "4", "5", "6", "7", "8", "9">>

RECURSIVE Join(_, _)
Join(strings, separator) ==
    IF strings = <<>> THEN ""
    ELSE IF Len(strings) = 1 THEN strings[1]
    ELSE strings[1] \o separator \o Join(Tail(strings), separator)

\* `${value}` in a template literal
RECURSIVE TemplateString(_)
TemplateString(value) ==
    CASE value.k = "string"    -> value.s
      [] value.k = "undefined" -> "undefined"
      [] value.k = "null"      -> "null"
      [] value.k = "boolean"   -> IF value.b THEN "true" ELSE "false"
      [] value.k = "number"    -> DigitString[value.n + 1]
      [] value.k = "array"     -> Join([i \in DOMAIN value.a |-> TemplateString(value.a[i])], ",")
      [] OTHER                 -> "[object Object]"

\* `/${a}/${b}...`
RECURSIVE Path(_)
Path(segments) ==
    IF segments = <<>> THEN ""
    ELSE "/" \o TemplateString(segments[1]) \o Path(Tail(segments))

\* constants/ApiPaths
ENTITY_DATA_PATH   == Str("entitydata")
ENTITY_SET_PATH    == Str("entity/set")
ENTITY_TYPE_PATH_underscored == Str("entity_type")
ENTITY_TYPE_PATH   == Str("entity/type")
NAMESPACE_PATH     == Str("namespace")
PROPERTY_TYPE_PATH == Str("property/type")
SCHEMA_PATH        == Str("schema")
SET_PATH           == Str("set")
TYPE_PATH          == Str("type")
GET_DATA_PATH      == Str("getData")
ADD_PROPERTY_TYPES_PATH    == Str("addPropertyTypes")
DELETE_PROPERTY_TYPES_PATH == Str("deletePropertyTypes")
MULTIPLE_PATH      == Str("multiple")

\* FullyQualifiedName.isValidFqnObjectLiteral(value)
isValidFqnObjectLiteral(value) ==
    /\ value.k = "object"
    /\ isNonEmptyString(Get(value, "namespace"))
    /\ isNonEmptyString(Get(value, "name"))

\* new FullyQualifiedName(namespace, name).isValid()
FullyQualifiedName_isValid(namespace, name) ==
    isNonEmptyString(namespace) /\ isNonEmptyString(name)

\* array.reduce((isValid, fqn) => isValid && isValidFqnObjectLiteral(fqn), true)
AllValidFqns(elements) == \A i \in DOMAIN elements : isValidFqnObjectLiteral(elements[i])

\* array.reduce((isValid, id) => isValid && isValidUUID(id), true)
AllValidUUIDs(elements) == \A i \in DOMAIN elements : isValidUUID(elements[i])

\* array.reduce((isValid, entitySet) => isValid && isNonEmptyObject(entitySet), true)
AllNonEmptyObjects(elements) == \A i \in DOMAIN elements : isNonEmptyObject(elements[i])

NoCall == [k |-> "none"]
Pending == [k |-> "pending"]

(* What an API function does before it returns: it rejects (having logged  *)
(* or not), returns a plain value, or hands one request to axios and       *)
(* returns the promise chained on it.                                      *)

LogCall(level, message, args) == [level |-> level, message |-> message, args |-> args]

\* return Promise.reject(msg)
Reject(msg) == [kind |-> "reject", msg |-> msg, logs |-> <<>>]

\* a rejection that logs the message without the value
RejectLogged_messageOnly(msg, args) ==
    [kind |-> "reject", msg |-> msg, logs |-> <<LogCall("error", Str(msg), <<>>)>>]

\* LOG.error(msg, value); return Promise.reject(msg)
RejectLogged(msg, args) ==
    [kind |-> "reject", msg |-> msg, logs |-> <<LogCall("error", Str(msg), args)>>]

\* axios.<method>(url, ...args).then(...).catch(<onError>)
Request(method, url, args, onError) ==
    [kind |-> "request", method |-> method, url |-> url, args |-> args, onError |-> onError]

\* a then that returns the response and not its data
thenData_wholeResponse(axiosResponse) ==
    [promise |-> [state |-> "fulfilled",
                  value |-> Obj([data |-> axiosResponse.data, status |-> Num(2)]),
                  by |-> "then"],
     logs    |-> <<>>]

\* .then((axiosResponse) => { return axiosResponse.data; })
thenData(axiosResponse) ==
    [promise |-> [state |-> "fulfilled", value |-> axiosResponse.data, by |-> "then"],
     logs    |-> <<>>]

\* a catch that logs and throws the error on
catchSwallow_rethrows(e) ==
    [promise |-> [state |-> "rejected", value |-> e, by |-> "catch"],
     logs    |-> <<LogCall("error", e, <<>>)>>]

\* .catch((e) => { LOG.error(e); })
catchSwallow(e) ==
    [promise |-> [state |-> "fulfilled", value |-> Undefined, by |-> "catch"],
     logs    |-> <<LogCall("error", e, <<>>)>>]

\* a catch that logs and rejects with a new error made from the message
catchPropagate_wrapsError(error) ==
    [promise |-> [state |-> "rejected",
                  value |-> [k |-> "error", message |-> "Error: " \o error.message],
                  by |-> "catch"],
     logs    |-> <<LogCall("error", error, <<>>)>>]

\* .catch((error) => { LOG.error(error); return Promise.reject(error); })
catchPropagate(error) ==
    [promise |-> [state |-> "rejected", value |-> error, by |-> "catch"],
     logs    |-> <<LogCall("error", error, <<>>)>>]

SWALLOW   == "swallow"
PROPAGATE == "propagate"

\* the call of function fn of module api with args: what the client holds
\* when the function has returned
Invoke(api, fn, args, outcome) ==
    /\ call' = [api |-> api, fn |-> fn, args |-> args]
    /\ promise' =
          CASE outcome.kind = "reject" ->
                   [state |-> "rejected", value |-> Str(outcome.msg), by |-> "validation"]
            [] outcome.kind = "return" ->
                   [state |-> "none", returned |-> outcome.value]
            [] OTHER ->
                   [state |-> "pending", onError |-> outcome.onError]
    /\ requests' =
          IF outcome.kind = "request"
          THEN <<[method |-> outcome.method, url |-> outcome.url, args |-> outcome.args,
                  result |-> Pending]>>
          ELSE <<>>
    /\ logged' = IF outcome.kind = "request" THEN <<>> ELSE outcome.logs
    /\ UNCHANGED <<roleVars, acVars>>

HttpErrors ==
    {[k |-> "error", message |-> "Network Error"],
     [k |-> "error", message |-> "Request failed with status code 500"]}

ResponseData == {Undefined, Str(UUID_A), Arr(<<>>)}

\* the server answers: the request's promise is fulfilled with the response
HttpSuccess ==
    \E data \in ResponseData :
        LET axiosResponse == [data |-> data, status |-> 200]
            handled == thenData(axiosResponse)
        IN  /\ promise.state = "pending"
            /\ requests' = [requests EXCEPT ![1].result =
                               [k |-> "response", response |-> axiosResponse]]
            /\ promise' = handled.promise
            /\ logged' = logged \o handled.logs
            /\ UNCHANGED <<call, roleVars, acVars>>

\* the request fails: its promise is rejected with the error
HttpFailure ==
    \E error \in HttpErrors :
        LET handled == IF promise.onError = SWALLOW
                       THEN catchSwallow(error) ELSE catchPropagate(error)
        IN  /\ promise.state = "pending"
            /\ requests' = [requests EXCEPT ![1].result = [k |-> "error", error |-> error]]
            /\ promise' = handled.promise
            /\ logged' = logged \o handled.logs
            /\ UNCHANGED <<call, roleVars, acVars>>

\* the client is done with the call; the functions keep no state between calls
Done ==
    /\ call # NoCall
    /\ promise.state # "pending"
    /\ call' = NoCall
    /\ promise' = [state |-> "none"]
    /\ requests' = <<>>
    /\ logged' = <<>>
    /\ UNCHANGED <<roleVars, acVars>>

(* the values the client passes *)

MaxItems == 2    \* the longest array passed to an API function

FQN(namespace, name) == Obj([namespace |-> Str(namespace), name |-> Str(name)])

UuidArgs   == {Undefined, Null, Str("not-a-uuid"), Str(UUID_A), Str(UUID_B)}
StringArgs == {Undefined, Null, Str(""), Str("abc"), Num(5)}
FqnArgs    == {Undefined, Str("LOOM.MyEntity"), Obj([namespace |-> Str("LOOM")]),
               Obj([namespace |-> Str(""), name |-> Str("MyEntity")]),
               FQN("LOOM", "MyEntity"), FQN("LOOM", "MySchema")}
ObjectArgs == {Undefined, Null, Str("abc"), Obj(<<>>), Obj([entityId_1 |-> Arr(<<>>)])}

ArraysOf(elements) == {Arr(a) : a \in SeqsUpTo(elements, MaxItems)}

UuidArrayArgs   == {Undefined, Str(UUID_A)} \cup ArraysOf({Str(UUID_A), Str("not-a-uuid")})
FqnArrayArgs    == {Undefined, FQN("LOOM", "MyEntity")}
                   \cup ArraysOf({FQN("LOOM", "MyEntity"), Obj([namespace |-> Str("LOOM")])})
ObjectArrayArgs == {Undefined, Obj([name |-> Str("MySet")])}
                   \cup ArraysOf({Obj([name |-> Str("MySet")]), Obj(<<>>)})
BodyArgs        == {Undefined, Arr(<<>>), Obj([type |-> FQN("LOOM", "MyEntity")])}

---------------------------------------------------------------------------
(* src/DataApi.js *)

getAllEntitiesOfType ==
    \E entityTypeFqn \in FqnArgs :
        /\ call = NoCall
        /\ Invoke("DataApi", "getAllEntitiesOfType", <<entityTypeFqn>>,
            IF ~isValidFqnObjectLiteral(entityTypeFqn)
            THEN Reject("invalid parameter: entityTypeFqn must be a valid object literal")
            ELSE Request("GET",
                         Path(<<ENTITY_DATA_PATH, Get(entityTypeFqn, "namespace"),
                                Get(entityTypeFqn, "name")>>),
                         <<>>, SWALLOW))

downloadAllEntitiesOfType ==
    \E entityTypeFqn \in FqnArgs, fileType \in {Undefined, Str("csv")} :
        /\ call = NoCall
        /\ Invoke("DataApi", "downloadAllEntitiesOfType", <<entityTypeFqn, fileType>>,
            IF ~isValidFqnObjectLiteral(entityTypeFqn)
            THEN Reject("invalid parameter: entityTypeFqn must be a valid object literal")
            ELSE Request("GET",
                         Path(<<ENTITY_DATA_PATH, Get(entityTypeFqn, "namespace"),
                                Get(entityTypeFqn, "name")>>),
                         <<Obj([params |-> Obj([fileType |-> fileType])])>>, SWALLOW))

getAllEntitiesOfTypes ==
    \E entityTypeFqns \in FqnArrayArgs :
        /\ call = NoCall
        /\ Invoke("DataApi", "getAllEntitiesOfTypes", <<entityTypeFqns>>,
            Request("PUT", Path(<<ENTITY_DATA_PATH, MULTIPLE_PATH>>),
                    <<entityTypeFqns>>, SWALLOW))

getAllEntitiesOfTypeInSet ==
    \E entityTypeFqn \in FqnArgs, entitySetName \in StringArgs :
        /\ call = NoCall
        /\ Invoke("DataApi", "getAllEntitiesOfTypeInSet", <<entityTypeFqn, entitySetName>>,
            IF ~isValidFqnObjectLiteral(entityTypeFqn)
            THEN Reject("invalid parameter: entityTypeFqn must be a valid object literal")
            ELSE IF isNonEmptyString(entitySetName)
            THEN Reject("invalid parameter: entitySetName must be a non-empty string")
            ELSE Request("GET",
                         Path(<<ENTITY_DATA_PATH, Get(entityTypeFqn, "namespace"),
                                Get(entityTypeFqn, "name"), entitySetName>>),
                         <<>>, SWALLOW))

downloadAllEntitiesOfTypeInSet ==
    \E entityTypeFqn \in FqnArgs, entitySetName \in StringArgs,
       fileType \in {Undefined, Str("csv")} :
        /\ call = NoCall
        /\ Invoke("DataApi", "downloadAllEntitiesOfTypeInSet",
               <<entityTypeFqn, entitySetName, fileType>>,
            IF ~isValidFqnObjectLiteral(entityTypeFqn)
            THEN Reject("invalid parameter: entityTypeFqn must be a valid object literal")
            ELSE IF isNonEmptyString(entitySetName)
            THEN Reject("invalid parameter: entitySetName must be a non-empty string")
            ELSE Request("GET",
                         Path(<<ENTITY_DATA_PATH, Get(entityTypeFqn, "namespace"),
                                Get(entityTypeFqn, "name"), entitySetName>>),
                         <<Obj([params |-> Obj([fileType |-> fileType])])>>, SWALLOW))

createEntity ==
    \E createEntityRequest \in BodyArgs :
        /\ call = NoCall
        /\ Invoke("DataApi", "createEntity", <<createEntityRequest>>,
            Request("POST", Path(<<ENTITY_DATA_PATH>>), <<createEntityRequest>>, SWALLOW))

---------------------------------------------------------------------------
(* src/api/DataApi.js *)

\* FILE_TYPES: an Immutable.Map from the accepted names to the file type
FILE_TYPES == [csv |-> "csv", CSV |-> "csv", json |-> "json", JSON |-> "json"]

\* FILE_TYPES.contains(value): whether value is among the map's values
FILE_TYPES_contains(value) ==
    value.k = "string" /\ \E key \in DOMAIN FILE_TYPES : FILE_TYPES[key] = value.s

\* FILE_TYPES.get(key)
FILE_TYPES_get(key) ==
    IF key.k = "string" /\ key.s \in DOMAIN FILE_TYPES
    THEN Str(FILE_TYPES[key.s]) ELSE Undefined

\* getApiBaseUrl(DATA_API)
DATA_API_BASE_URL == "https://api.loom.digital/datastore/data"

getEntitySetData ==
    \E entitySetId \in UuidArgs :
        /\ call = NoCall
        /\ Invoke("DataApi", "getEntitySetData", <<entitySetId>>,
            IF ~isValidUuid(entitySetId)
            THEN Reject("invalid parameter: entitySetId must be a valid UUID")
            ELSE Request("GET", Path(<<ENTITY_DATA_PATH, entitySetId>>), <<>>, SWALLOW))

getEntitySetDataFileUrl ==
    \E entitySetId \in UuidArgs,
       fileType \in {Undefined, Str("csv"), Str("CSV"), Str("json"), Str("JSON"), Str("xml")} :
        /\ call = NoCall
        /\ Invoke("DataApi", "getEntitySetDataFileUrl", <<entitySetId, fileType>>,
            IF ~isValidUuid(entitySetId)
            THEN [kind |-> "return", value |-> Null,
                  logs |-> <<LogCall("warn",
                                Str("invalid parameter: entitySetId must be a valid UUID"),
                                <<entitySetId>>)>>]
            ELSE IF ~FILE_TYPES_contains(fileType)
            THEN [kind |-> "return", value |-> Null,
                  logs |-> <<LogCall("warn",
                                Str("invalid parameter: fileType must be a valid file type string"),
                                <<fileType>>)>>]
            ELSE [kind |-> "return",
                  value |-> Str(DATA_API_BASE_URL \o Path(<<ENTITY_DATA_PATH, entitySetId>>)
                                \o "?fileType=" \o TemplateString(FILE_TYPES_get(fileType))),
                  logs |-> <<>>])

getSelectedEntitySetData ==
    \E entitySetId \in UuidArgs, syncIds \in UuidArrayArgs, propertyTypeIds \in UuidArrayArgs :
        /\ call = NoCall
        /\ Invoke("DataApi", "getSelectedEntitySetData", <<entitySetId, syncIds, propertyTypeIds>>,
            IF ~isValidUuid(entitySetId)
            THEN Reject("invalid parameter: entitySetId must be a valid UUID")
            ELSE IF ~isValidUuidArray(NoHeap, syncIds)
            THEN Reject("invalid parameter: syncIds must be a non-empty array of valid UUIDs")
            ELSE IF ~isValidUuidArray(NoHeap, propertyTypeIds)
            THEN Reject("invalid parameter: propertyTypeIds must be a non-empty array of valid UUIDs")
            ELSE Request("POST", Path(<<ENTITY_DATA_PATH, entitySetId, GET_DATA_PATH>>),
                         <<Obj([syncIds |-> syncIds, properties |-> propertyTypeIds])>>,
                         SWALLOW))

createEntityData ==
    \E entitySetId \in UuidArgs, syncId \in UuidArgs, entities \in ObjectArgs :
        /\ call = NoCall
        /\ Invoke("DataApi", "createEntityData", <<entitySetId, syncId, entities>>,
            IF ~isValidUuid(entitySetId)
            THEN Reject("invalid parameter: entitySetId must be a valid UUID")
            ELSE IF ~isValidUuid(syncId)
            THEN Reject("invalid parameter: syncId must be a valid UUID")
            ELSE IF ~isNonEmptyObject(entities)
            THEN Reject("invalid parameter: entities must be a non-empty object")
            ELSE Request("POST", Path(<<ENTITY_DATA_PATH, entitySetId, syncId>>),
                         <<entities>>, SWALLOW))

---------------------------------------------------------------------------
(* LinkingApi *)

createLinkingEntityType ==
    \E linkingEntityType \in BodyArgs :
        /\ call = NoCall
        /\ Invoke("LinkingApi", "createLinkingEntityType", <<linkingEntityType>>,
            Request("POST", Path(<<TYPE_PATH>>), <<linkingEntityType>>, PROPAGATE))

linkEntitySets ==
    \E linkingEntitySet \in BodyArgs :
        /\ call = NoCall
        /\ Invoke("LinkingApi", "linkEntitySets", <<linkingEntitySet>>,
            Request("POST", Path(<<SET_PATH>>), <<linkingEntitySet>>, PROPAGATE))

linkEntities ==
    \E syncId \in UuidArgs, entitySetId \in UuidArgs, entityId \in StringArgs, entities \in BodyArgs :
        /\ call = NoCall
        /\ Invoke("LinkingApi", "linkEntities", <<syncId, entitySetId, entityId, entities>>,
            IF ~isValidUuid(syncId)
            THEN RejectLogged("invalid parameter: syncId must be a valid UUID", <<syncId>>)
            ELSE IF ~isValidUuid(entitySetId)
            THEN RejectLogged("invalid parameter: entitySetId must be a valid UUID", <<entitySetId>>)
            ELSE IF ~isNonEmptyString(entityId)
            THEN RejectLogged("invalid parameter: entityId must be a non-empty string", <<entityId>>)
            ELSE Request("POST", Path(<<SET_PATH, syncId, entitySetId, entityId>>),
                         <<entities>>, PROPAGATE))

setLinkedEntities ==
    \E syncId \in UuidArgs, entitySetId \in UuidArgs, entityId \in StringArgs, entities \in BodyArgs :
        /\ call = NoCall
        /\ Invoke("LinkingApi", "setLinkedEntities", <<syncId, entitySetId, entityId, entities>>,
            IF ~isValidUuid(syncId)
            THEN RejectLogged("invalid parameter: syncId must be a valid UUID", <<syncId>>)
            ELSE IF ~isValidUuid(entitySetId)
            THEN RejectLogged("invalid parameter: entitySetId must be a valid UUID", <<entitySetId>>)
            ELSE IF ~isNonEmptyString(entityId)
            THEN RejectLogged("invalid parameter: entityId must be a non-empty string", <<entityId>>)
            ELSE Request("PUT", Path(<<SET_PATH, syncId, entitySetId, entityId>>),
                         <<entities>>, PROPAGATE))

removeLinkedEntities ==
    \E syncId \in UuidArgs, entitySetId \in UuidArgs, entityId \in StringArgs :
        /\ call = NoCall
        /\ Invoke("LinkingApi", "removeLinkedEntities", <<syncId, entitySetId, entityId>>,
            IF ~isValidUuid(syncId)
            THEN RejectLogged("invalid parameter: syncId must be a valid UUID", <<syncId>>)
            ELSE IF ~isValidUuid(entitySetId)
            THEN RejectLogged("invalid parameter: entitySetId must be a valid UUID", <<entitySetId>>)
            ELSE IF ~isNonEmptyString(entityId)
            THEN RejectLogged("invalid parameter: entityId must be a non-empty string", <<entityId>>)
            ELSE Request("DELETE", Path(<<SET_PATH, syncId, entitySetId, entityId>>),
                         <<>>, PROPAGATE))

addLinkedEntities ==
    \E syncId \in UuidArgs, entitySetId \in UuidArgs, entityId \in StringArgs, linkedEntityId \in StringArgs :
        /\ call = NoCall
        /\ Invoke("LinkingApi", "addLinkedEntities", <<syncId, entitySetId, entityId, linkedEntityId>>,
            IF ~isValidUuid(syncId)
            THEN RejectLogged("invalid parameter: syncId must be a valid UUID", <<syncId>>)
            ELSE IF ~isValidUuid(entitySetId)
            THEN RejectLogged("invalid parameter: entitySetId must be a valid UUID", <<entitySetId>>)
            ELSE IF ~isNonEmptyString(entityId)
            THEN RejectLogged("invalid parameter: entityId must be a non-empty string", <<entityId>>)
            ELSE IF ~isNonEmptyString(linkedEntityId)
            THEN RejectLogged("invalid parameter: linkedEntityId must be a non-empty string", <<linkedEntityId>>)
            ELSE Request("PUT", Path(<<SET_PATH, syncId, entitySetId, entityId, linkedEntityId>>),
                         <<>>, PROPAGATE))

removeLinkedEntity ==
    \E syncId \in UuidArgs, entitySetId \in UuidArgs, entityId \in StringArgs, linkedEntityId \in StringArgs :
        /\ call = NoCall
        /\ Invoke("LinkingApi", "removeLinkedEntity", <<syncId, entitySetId, entityId, linkedEntityId>>,
            IF ~isValidUuid(syncId)
            THEN RejectLogged("invalid parameter: syncId must be a valid UUID", <<syncId>>)
            ELSE IF ~isValidUuid(entitySetId)
            THEN RejectLogged("invalid parameter: entitySetId must be a valid UUID", <<entitySetId>>)
            ELSE IF ~isNonEmptyString(entityId)
            THEN RejectLogged("invalid parameter: entityId must be a non-empty string", <<entityId>>)
            ELSE IF ~isNonEmptyString(linkedEntityId)
            THEN RejectLogged("invalid parameter: linkedEntityId must be a non-empty string", <<linkedEntityId>>)
            ELSE Request("DELETE", Path(<<SET_PATH, syncId, entitySetId, entityId, linkedEntityId>>),
                         <<>>, PROPAGATE))

---------------------------------------------------------------------------
(* DataIntegrationApi *)

isUndefined(value) == value.k = "undefined"

createEntityAndAssociationData ==
    \E bulkDataCreation \in ObjectArgs :
        /\ call = NoCall
        /\ Invoke("DataIntegrationApi", "createEntityAndAssociationData", <<bulkDataCreation>>,
            IF isUndefined(bulkDataCreation) \/ ~isNonEmptyObject(bulkDataCreation)
            THEN RejectLogged("invalid parameter: bulkDataCreation must be a non-empty object",
                              <<>>)
            ELSE Request("POST", "/", <<bulkDataCreation>>, PROPAGATE))

---------------------------------------------------------------------------
(* api/EntityDataModelApi.js *)

isNil(value) == value.k \in {"undefined", "null"}

With(o, key, value) == [f \in DOMAIN o \cup {key} |-> IF f = key THEN value ELSE o[f]]

MockEntityType ==
    [namespace  |-> Str("LOOM"),
     name       |-> Str("MyEntity"),
     schemas    |-> Arr(<<FQN("LOOM", "MySchema")>>),
     key        |-> Arr(<<Str(UUID_A)>>),
     properties |-> Arr(<<Str(UUID_A), Str(UUID_B)>>)]

MockPropertyType ==
    [namespace |-> Str("LOOM"),
     name      |-> Str("MyProperty"),
     datatype  |-> Str("String"),
     schemas   |-> Arr(<<FQN("LOOM", "MySchema")>>)]

\* the field values that break one check each
BadFieldValues ==
    {Undefined, Null, Str(""), Str("not-a-uuid"), Arr(<<>>), Arr(<<Str("not-a-uuid")>>),
     Arr(<<Obj([namespace |-> Str("LOOM")])>>)}

\* the mock with two of its fields broken
BrokenTwice(mock) ==
    {Obj(With(With(mock, f, v), g, w)) :
        f \in DOMAIN mock \cup {"id"}, g \in DOMAIN mock \cup {"id"},
        v \in BadFieldValues, w \in BadFieldValues}

TypeArgs(mock) ==
    {Undefined, Null, Str("abc"), Obj(<<>>), Obj(mock), Obj(With(mock, "id", Str(UUID_B)))}
    \cup {Obj(With(mock, field, value)) :
              field \in DOMAIN mock \cup {"id"}, value \in BadFieldValues}
    \cup BrokenTwice(mock)

getEntityDataModel ==
    /\ call = NoCall
    /\ Invoke("EntityDataModelApi", "getEntityDataModel", <<>>,
            Request("GET", "/",
                    <<>>, SWALLOW))

\* getSchema with a check of the namespace only
getSchema_namespaceOnly ==
    \E schemaFqn \in FqnArgs :
        /\ call = NoCall
        /\ Invoke("EntityDataModelApi", "getSchema", <<schemaFqn>>,
            IF ~isNonEmptyString(Get(schemaFqn, "namespace"))
            THEN Reject("invalid parameter: schemaFqn must be a valid FQN object literal")
            ELSE Request("GET", Path(<<SCHEMA_PATH, Get(schemaFqn, "namespace"), Get(schemaFqn, "name")>>),
                         <<>>, SWALLOW))

getSchema ==
    \E schemaFqn \in FqnArgs :
        /\ call = NoCall
        /\ Invoke("EntityDataModelApi", "getSchema", <<schemaFqn>>,
            IF ~isValidFqnObjectLiteral(schemaFqn)
            THEN Reject("invalid parameter: schemaFqn must be a valid FQN object literal")
            ELSE Request("GET", Path(<<SCHEMA_PATH, Get(schemaFqn, "namespace"), Get(schemaFqn, "name")>>),
                         <<>>, SWALLOW))

getAllSchemas ==
    /\ call = NoCall
    /\ Invoke("EntityDataModelApi", "getAllSchemas", <<>>,
            Request("GET", Path(<<SCHEMA_PATH>>),
                    <<>>, SWALLOW))

getAllSchemasInNamespace ==
    \E namespace \in StringArgs :
        /\ call = NoCall
        /\ Invoke("EntityDataModelApi", "getAllSchemasInNamespace", <<namespace>>,
            IF ~isNonEmptyString(namespace)
            THEN Reject("invalid parameter: namespace must be a non-empty string")
            ELSE Request("GET", Path(<<SCHEMA_PATH, namespace>>),
                         <<>>, SWALLOW))

createSchema ==
    \E schemaFqn \in FqnArgs :
        /\ call = NoCall
        /\ Invoke("EntityDataModelApi", "createSchema", <<schemaFqn>>,
            IF ~isValidFqnObjectLiteral(schemaFqn)
            THEN Reject("invalid parameter: schemaFqn must be a valid FQN object literal")
            ELSE Request("PUT", Path(<<SCHEMA_PATH>>),
                         <<schemaFqn>>, SWALLOW))

addEntityTypesToSchema ==
    \E schemaFqn \in FqnArgs, entityTypeFqns \in FqnArrayArgs :
        /\ call = NoCall
        /\ Invoke("EntityDataModelApi", "addEntityTypesToSchema", <<schemaFqn, entityTypeFqns>>,
            IF ~isValidFqnObjectLiteral(schemaFqn)
            THEN Reject("invalid parameter: schemaFqn must be a valid FQN object literal")
            ELSE IF ~isNonEmptyArray(NoHeap, entityTypeFqns)
            THEN Reject("invalid parameter: entityTypeFqns must be a non-empty array")
            ELSE IF ~AllValidFqns(Elements(NoHeap, entityTypeFqns))
            THEN Reject("invalid parameter: entityTypeFqns must be an array of valid FQN object literals")
            ELSE Request("PUT", Path(<<SCHEMA_PATH, Get(schemaFqn, "namespace"), Get(schemaFqn, "name")>>),
                         <<entityTypeFqns>>, SWALLOW))

removeEntityTypesFromSchema ==
    \E schemaFqn \in FqnArgs, entityTypeFqns \in FqnArrayArgs :
        /\ call = NoCall
        /\ Invoke("EntityDataModelApi", "removeEntityTypesFromSchema", <<schemaFqn, entityTypeFqns>>,
            IF ~isValidFqnObjectLiteral(schemaFqn)
            THEN Reject("invalid parameter: schemaFqn must be a valid FQN object literal")
            ELSE IF ~isNonEmptyArray(NoHeap, entityTypeFqns)
            THEN Reject("invalid parameter: entityTypeFqns must be a non-empty array")
            ELSE IF ~AllValidFqns(Elements(NoHeap, entityTypeFqns))
            THEN Reject("invalid parameter: entityTypeFqns must be an array of valid FQN object literals")
            ELSE Request("DELETE", Path(<<SCHEMA_PATH, Get(schemaFqn, "namespace"), Get(schemaFqn, "name")>>),
                         <<Obj([data |-> entityTypeFqns])>>, SWALLOW))

addPropertyTypesToSchema ==
    \E schemaFqn \in FqnArgs, propertyTypeFqns \in FqnArrayArgs :
        /\ call = NoCall
        /\ Invoke("EntityDataModelApi", "addPropertyTypesToSchema", <<schemaFqn, propertyTypeFqns>>,
            IF ~isValidFqnObjectLiteral(schemaFqn)
            THEN Reject("invalid parameter: schemaFqn must be a valid FQN object literal")
            ELSE IF ~isNonEmptyArray(NoHeap, propertyTypeFqns)
            THEN Reject("invalid parameter: propertyTypeFqns must be a non-empty array")
            ELSE IF ~AllValidFqns(Elements(NoHeap, propertyTypeFqns))
            THEN Reject("invalid parameter: propertyTypeFqns must be an array of valid FQN object literals")
            ELSE Request("PUT", Path(<<SCHEMA_PATH, Get(schemaFqn, "namespace"), Get(schemaFqn, "name"),
                                ADD_PROPERTY_TYPES_PATH>>),
                         <<propertyTypeFqns>>, SWALLOW))

removePropertyTypesFromSchema ==
    \E schemaFqn \in FqnArgs, propertyTypeFqns \in FqnArrayArgs :
        /\ call = NoCall
        /\ Invoke("EntityDataModelApi", "removePropertyTypesFromSchema", <<schemaFqn, propertyTypeFqns>>,
            IF ~isValidFqnObjectLiteral(schemaFqn)
            THEN Reject("invalid parameter: schemaFqn must be a valid FQN object literal")
            ELSE IF ~isNonEmptyArray(NoHeap, propertyTypeFqns)
            THEN Reject("invalid parameter: propertyTypeFqns must be a non-empty array")
            ELSE IF ~AllValidFqns(Elements(NoHeap, propertyTypeFqns))
            THEN Reject("invalid parameter: propertyTypeFqns must be an array of valid FQN object literals")
            ELSE Request("DELETE", Path(<<SCHEMA_PATH, Get(schemaFqn, "namespace"), Get(schemaFqn, "name"),
                                DELETE_PROPERTY_TYPES_PATH>>),
                         <<Obj([data |-> propertyTypeFqns])>>, SWALLOW))

IsOwnerArgs ==
    {Undefined, Null, Bool(TRUE), Bool(FALSE), Str("abc"), Str(""), Num(0), Num(5), Arr(<<>>)}

\* getAllEntitySets with isOwner put into the query string as it is
getAllEntitySets_rawValue ==
    \E isOwner \in IsOwnerArgs :
        LET queryString == IF isNil(isOwner) THEN ""
                           ELSE "?isOwner=" \o TemplateString(isOwner)
        IN  /\ call = NoCall
            /\ Invoke("EntityDataModelApi", "getAllEntitySets", <<isOwner>>,
                Request("GET", Path(<<ENTITY_SET_PATH>>) \o queryString, <<>>, SWALLOW))

getAllEntitySets ==
    \E isOwner \in IsOwnerArgs :
        LET queryString == IF isNil(isOwner) THEN ""
                           ELSE "?isOwner=" \o TemplateString(Bool(~Falsy(isOwner)))
        IN  /\ call = NoCall
            /\ Invoke("EntityDataModelApi", "getAllEntitySets", <<isOwner>>,
                Request("GET", Path(<<ENTITY_SET_PATH>>) \o queryString, <<>>, SWALLOW))

createEntitySets ==
    \E entitySets \in ObjectArrayArgs :
        /\ call = NoCall
        /\ Invoke("EntityDataModelApi", "createEntitySets", <<entitySets>>,
            IF ~isNonEmptyArray(NoHeap, entitySets)
            THEN Reject("invalid parameter: entitySets must be a non-empty array")
            ELSE IF ~AllNonEmptyObjects(Elements(NoHeap, entitySets))
            THEN Reject("invalid parameter: entitySets must be an array of valid FQN object literals")
            ELSE Request("POST", Path(<<ENTITY_SET_PATH>>),
                         <<entitySets>>, SWALLOW))

getEntityType ==
    \E entityTypeId \in UuidArgs :
        /\ call = NoCall
        /\ Invoke("EntityDataModelApi", "getEntityType", <<entityTypeId>>,
            IF ~isValidUUID(entityTypeId)
            THEN Reject("invalid parameter: entityTypeId must be a valid UUID")
            ELSE Request("GET", Path(<<ENTITY_TYPE_PATH, entityTypeId>>),
                         <<>>, SWALLOW))

getAllEntityTypes ==
    /\ call = NoCall
    /\ Invoke("EntityDataModelApi", "getAllEntityTypes", <<>>,
            Request("GET", Path(<<ENTITY_TYPE_PATH>>),
                    <<>>, SWALLOW))

\* createEntityType with the check of schemas ahead of the FQN's
createEntityType_schemasFirst ==
    \E entityType \in TypeArgs(MockEntityType) :
        /\ call = NoCall
        /\ Invoke("EntityDataModelApi", "createEntityType", <<entityType>>,
            IF ~isNonEmptyObject(entityType)
            THEN Reject("invalid parameter: entityType must be a non-empty object literal")
            ELSE IF Get(entityType, "id") # Undefined /\ ~isValidUUID(Get(entityType, "id"))
            THEN Reject("invalid parameter: entityType.id must be a valid UUID")
            ELSE IF ~isNonEmptyArray(NoHeap, Get(entityType, "schemas"))
            THEN Reject("invalid parameter: entityType.schemas must be a non-empty array")
            ELSE IF ~AllValidFqns(Elements(NoHeap, Get(entityType, "schemas")))
            THEN Reject("invalid parameter: entityType.schemas must be an array of valid FQN object literals")
            ELSE IF ~FullyQualifiedName_isValid(Get(entityType, "namespace"), Get(entityType, "name"))
            THEN Reject("invalid parameters: entityType.namespace and entityType.name must form a valid FQN")
            ELSE IF ~isNonEmptyArray(NoHeap, Get(entityType, "key"))
            THEN Reject("invalid parameter: entityType.key must be a non-empty array")
            ELSE IF ~AllValidUUIDs(Elements(NoHeap, Get(entityType, "key")))
            THEN Reject("invalid parameter: entityType.key must be an array of valid UUIDs")
            ELSE IF ~isNonEmptyArray(NoHeap, Get(entityType, "properties"))
            THEN Reject("invalid parameter: entityType.properties must be a non-empty array")
            ELSE IF ~AllValidUUIDs(Elements(NoHeap, Get(entityType, "properties")))
            THEN Reject("invalid parameter: entityType.properties must be an array of valid UUIDs")
            ELSE Request("POST", Path(<<ENTITY_TYPE_PATH>>),
                         <<entityType>>, SWALLOW))

createEntityType ==
    \E entityType \in TypeArgs(MockEntityType) :
        /\ call = NoCall
        /\ Invoke("EntityDataModelApi", "createEntityType", <<entityType>>,
            IF ~isNonEmptyObject(entityType)
            THEN Reject("invalid parameter: entityType must be a non-empty object literal")
            ELSE IF Get(entityType, "id") # Undefined /\ ~isValidUUID(Get(entityType, "id"))
            THEN Reject("invalid parameter: entityType.id must be a valid UUID")
            ELSE IF ~FullyQualifiedName_isValid(Get(entityType, "namespace"), Get(entityType, "name"))
            THEN Reject("invalid parameters: entityType.namespace and entityType.name must form a valid FQN")
            ELSE IF ~isNonEmptyArray(NoHeap, Get(entityType, "schemas"))
            THEN Reject("invalid parameter: entityType.schemas must be a non-empty array")
            ELSE IF ~AllValidFqns(Elements(NoHeap, Get(entityType, "schemas")))
            THEN Reject("invalid parameter: entityType.schemas must be an array of valid FQN object literals")
            ELSE IF ~isNonEmptyArray(NoHeap, Get(entityType, "key"))
            THEN Reject("invalid parameter: entityType.key must be a non-empty array")
            ELSE IF ~AllValidUUIDs(Elements(NoHeap, Get(entityType, "key")))
            THEN Reject("invalid parameter: entityType.key must be an array of valid UUIDs")
            ELSE IF ~isNonEmptyArray(NoHeap, Get(entityType, "properties"))
            THEN Reject("invalid parameter: entityType.properties must be a non-empty array")
            ELSE IF ~AllValidUUIDs(Elements(NoHeap, Get(entityType, "properties")))
            THEN Reject("invalid parameter: entityType.properties must be an array of valid UUIDs")
            ELSE Request("POST", Path(<<ENTITY_TYPE_PATH>>),
                         <<entityType>>, SWALLOW))

deleteEntityType ==
    \E entityTypeId \in UuidArgs :
        /\ call = NoCall
        /\ Invoke("EntityDataModelApi", "deleteEntityType", <<entityTypeId>>,
            IF ~isValidUUID(entityTypeId)
            THEN Reject("invalid parameter: entityTypeId must be a valid UUID")
            ELSE Request("DELETE", Path(<<ENTITY_TYPE_PATH, entityTypeId>>),
                         <<>>, SWALLOW))

updatePropertyTypesForEntityType ==
    \E entityTypeId \in UuidArgs, propertyTypeIds \in UuidArrayArgs :
        /\ call = NoCall
        /\ Invoke("EntityDataModelApi", "updatePropertyTypesForEntityType", <<entityTypeId, propertyTypeIds>>,
            IF ~isValidUUID(entityTypeId)
            THEN Reject("invalid parameter: entityTypeId must be a valid UUID")
            ELSE IF ~isNonEmptyArray(NoHeap, propertyTypeIds)
            THEN Reject("invalid parameter: propertyTypeIds must be a non-empty array")
            ELSE IF ~AllValidUUIDs(Elements(NoHeap, propertyTypeIds))
            THEN Reject("invalid parameter: propertyTypeIds must be an array of valid UUIDs")
            ELSE Request("PATCH", Path(<<ENTITY_TYPE_PATH, entityTypeId>>),
                         <<propertyTypeIds>>, SWALLOW))

getPropertyType ==
    \E propertyTypeId \in UuidArgs :
        /\ call = NoCall
        /\ Invoke("EntityDataModelApi", "getPropertyType", <<propertyTypeId>>,
            IF ~isValidUUID(propertyTypeId)
            THEN Reject("invalid parameter: propertyTypeId must be a valid UUID")
            ELSE Request("GET", Path(<<PROPERTY_TYPE_PATH, propertyTypeId>>),
                         <<>>, SWALLOW))

getAllPropertyTypes ==
    /\ call = NoCall
    /\ Invoke("EntityDataModelApi", "getAllPropertyTypes", <<>>,
            Request("GET", Path(<<PROPERTY_TYPE_PATH>>),
                    <<>>, SWALLOW))

getAllPropertyTypesInNamespace ==
    \E namespace \in StringArgs :
        /\ call = NoCall
        /\ Invoke("EntityDataModelApi", "getAllPropertyTypesInNamespace", <<namespace>>,
            IF ~isNonEmptyString(namespace)
            THEN Reject("invalid parameter: namespace must be a non-empty string")
            ELSE Request("GET", Path(<<NAMESPACE_PATH, namespace, PROPERTY_TYPE_PATH>>),
                         <<>>, SWALLOW))

\* createPropertyType with an id that must be given
createPropertyType_idRequired ==
    \E propertyType \in TypeArgs(MockPropertyType) :
        /\ call = NoCall
        /\ Invoke("EntityDataModelApi", "createPropertyType", <<propertyType>>,
            IF ~isNonEmptyObject(propertyType)
            THEN Reject("invalid parameter: propertyType must be a non-empty object literal")
            ELSE IF ~isValidUUID(Get(propertyType, "id"))
            THEN Reject("invalid parameter: propertyType.id must be a valid UUID")
            ELSE IF ~FullyQualifiedName_isValid(Get(propertyType, "namespace"), Get(propertyType, "name"))
            THEN Reject("invalid parameters: propertyType.namespace and propertyType.name must form a valid FQN")
            ELSE IF ~isNonEmptyString(Get(propertyType, "datatype"))
            THEN Reject("invalid parameter: propertyType.datatype must be a non-empty string")
            ELSE IF ~isNonEmptyArray(NoHeap, Get(propertyType, "schemas"))
            THEN Reject("invalid parameter: propertyType.schemas must be a non-empty array")
            ELSE IF ~AllValidFqns(Elements(NoHeap, Get(propertyType, "schemas")))
            THEN Reject("invalid parameter: propertyType.schemas must be an array of valid FQN object literals")
            ELSE Request("POST", Path(<<PROPERTY_TYPE_PATH>>),
                         <<propertyType>>, SWALLOW))

createPropertyType ==
    \E propertyType \in TypeArgs(MockPropertyType) :
        /\ call = NoCall
        /\ Invoke("EntityDataModelApi", "createPropertyType", <<propertyType>>,
            IF ~isNonEmptyObject(propertyType)
            THEN Reject("invalid parameter: propertyType must be a non-empty object literal")
            ELSE IF Get(propertyType, "id") # Undefined /\ ~isValidUUID(Get(propertyType, "id"))
            THEN Reject("invalid parameter: propertyType.id must be a valid UUID")
            ELSE IF ~FullyQualifiedName_isValid(Get(propertyType, "namespace"), Get(propertyType, "name"))
            THEN Reject("invalid parameters: propertyType.namespace and propertyType.name must form a valid FQN")
            ELSE IF ~isNonEmptyString(Get(propertyType, "datatype"))
            THEN Reject("invalid parameter: propertyType.datatype must be a non-empty string")
            ELSE IF ~isNonEmptyArray(NoHeap, Get(propertyType, "schemas"))
            THEN Reject("invalid parameter: propertyType.schemas must be a non-empty array")
            ELSE IF ~AllValidFqns(Elements(NoHeap, Get(propertyType, "schemas")))
            THEN Reject("invalid parameter: propertyType.schemas must be an array of valid FQN object literals")
            ELSE Request("POST", Path(<<PROPERTY_TYPE_PATH>>),
                         <<propertyType>>, SWALLOW))

deletePropertyType ==
    \E propertyTypeId \in UuidArgs, propertyTypeFqn \in FqnArgs :
        /\ call = NoCall
        /\ Invoke("EntityDataModelApi", "deletePropertyType", <<propertyTypeId, propertyTypeFqn>>,
            IF ~isValidUUID(propertyTypeId)
            THEN Reject("invalid parameter: propertyTypeId must be a valid UUID")
            ELSE IF ~isValidFqnObjectLiteral(propertyTypeFqn)
            THEN Reject("invalid parameter: propertyTypeFqn must be a valid FQN object literal")
            ELSE Request("DELETE", Path(<<PROPERTY_TYPE_PATH, propertyTypeId, Get(propertyTypeFqn, "name")>>),
                         <<>>, SWALLOW))

---------------------------------------------------------------------------
(* properties of AccessCheck and AccessCheckBuilder *)

\* what a reader of the object sees: its fields, arrays by their elements
Deref(h, value) == IF value.k = "ref" THEN Arr(Elements(h, value)) ELSE value

Observed(h, object) ==
    [aclKey |-> Deref(h, object.aclKey), permissions |-> Deref(h, object.permissions)]

\* C5: the object build() returned is immutable: no later operation (a
\* setter call on the builder, another build(), a write to a field of the
\* object, a mutation of an array that was passed to a setter) changes the
\* field values observable on it.
C5_BuiltObjectImmutable ==
    [][ \A i \in DOMAIN accessChecks :
            /\ i \in DOMAIN accessChecks'
            /\ Observed(heap', accessChecks'[i]) = Observed(heap, accessChecks[i]) ]_vars

Range(s) == {s[i] : i \in DOMAIN s}

PairwiseDistinct(s) == \A i, j \in DOMAIN s : i # j => s[i] # s[j]

\* C6: after setPermissions(p) succeeds with a non-empty array p of valid
\* Permissions, the builder's permissions, and those of the AccessCheck then
\* built, hold each distinct element of p exactly once and nothing else,
\* whatever the order and multiplicity of the elements of p.
C6_PermissionsEachOnce ==
    /\ ( /\ acResult.op = "setPermissions"
         /\ acResult.kind = "returned"
         /\ acResult.arg.k = "array"
         /\ acResult.arg.a # <<>>
         /\ \A e \in Range(acResult.arg.a) : isValidPermission(e) ) =>
            /\ isArray(heap, acBuilder.permissions)
            /\ Range(Elements(heap, acBuilder.permissions)) = Range(acResult.arg.a)
            /\ PairwiseDistinct(Elements(heap, acBuilder.permissions))
    /\ acResult.op = "build" =>
            Deref(heap, acResult.value.permissions) = Deref(heap, acBuilder.permissions)

\* setPermissions was given the same permission twice and kept it once
C6_Witness ==
    /\ acResult.op = "setPermissions"
    /\ acResult.kind = "returned"
    /\ acResult.arg = Arr(<<Str("WRITE"), Str("WRITE")>>)
    /\ Deref(heap, acBuilder.permissions) = Arr(<<Str("WRITE")>>)

\* C7: every AccessCheck build() returns, after any sequence of setAclKey
\* and setPermissions calls (those that threw included), has for aclKey an
\* array, possibly empty, of valid UUIDs and for permissions an array,
\* possibly empty, of pairwise distinct valid Permissions.
C7_BuiltAccessCheckValid ==
    acResult.op = "build" =>
        /\ isArray(heap, acResult.value.aclKey)
        /\ \A e \in Range(Elements(heap, acResult.value.aclKey)) : isValidUuid(e)
        /\ isArray(heap, acResult.value.permissions)
        /\ \A e \in Range(Elements(heap, acResult.value.permissions)) : isValidPermission(e)
        /\ PairwiseDistinct(Elements(heap, acResult.value.permissions))

\* build() of a builder holding two permissions and no aclKey
C7_Witness ==
    /\ acResult.op = "build"
    /\ Deref(heap, acResult.value.aclKey) = Arr(<<>>)
    /\ Deref(heap, acResult.value.permissions) = Arr(<<Str("WRITE"), Str("READ")>>)

---------------------------------------------------------------------------
(* properties of Role and RoleBuilder *)

REQUIRED_FIELDS == {"organizationId", "principal", "title"}
ROLE_FIELDS     == {"description", "id", "organizationId", "principal", "title"}

MissingProperty(field) ==
    "missing property: \"" \o field \o "\" is a required property"

\* the required fields no setter call (nor the constructor) has stored
NotStored == {field \in REQUIRED_FIELDS : roleBuilder[field] = Undefined}

BuildReturned == roleResult.op = "build" /\ roleResult.kind = "returned"

\* C1: build() throws a 'missing property' error whenever organizationId,
\* principal or title has not been stored by a successful setter call or by
\* the constructor, and returns a Role otherwise, after any sequence of
\* setter calls, those that threw included.
C1_BuildThrowsIffRequiredMissing ==
    roleResult.op = "build" =>
        IF NotStored # {}
        THEN /\ roleResult.kind = "threw"
             /\ \E field \in NotStored : roleResult.msg = MissingProperty(field)
        ELSE /\ roleResult.kind = "returned"
             /\ REQUIRED_FIELDS \subseteq DOMAIN roleResult.value
             /\ \A field \in REQUIRED_FIELDS : roleResult.value[field] = roleBuilder[field]

\* build() threw on a builder whose optional setters and setOrganizationId
\* had stored values
C1_Witness ==
    /\ roleResult.op = "build"
    /\ roleResult.kind = "threw"
    /\ roleBuilder.description # Undefined
    /\ roleBuilder.organizationId # Undefined
    /\ roleBuilder.title = Undefined

AclKeyFollowsId(properties) ==
    IF "id" \in DOMAIN properties
    THEN /\ "aclKey" \in DOMAIN properties
         /\ properties["aclKey"] = Arr(<<properties["organizationId"], properties["id"]>>)
    ELSE "aclKey" \notin DOMAIN properties

\* C2: on every Role build() returns, and on the object its toObject()
\* returns, aclKey is present and equals [organizationId, id] exactly when id
\* is present; when id was never set both id and aclKey are absent.
C2_AclKeyIffId ==
    /\ BuildReturned =>
          /\ AclKeyFollowsId(roleResult.value)
          /\ ("id" \in DOMAIN roleResult.value) <=> (roleBuilder.id # Undefined)
          /\ roleBuilder.id # Undefined => roleResult.value["id"] = roleBuilder.id
    /\ roleResult.op = "toObject" =>
          /\ AclKeyFollowsId(roleResult.value.o)
          /\ ("id" \in DOMAIN roleResult.value.o) <=> ("id" \in DOMAIN role)

\* toObject() of a Role with an id, and build() of a Role without
C2_Witness ==
    /\ roleResult.op = "toObject"
    /\ "aclKey" \in DOMAIN roleResult.value.o
    /\ roleResult.value.o["aclKey"] = Arr(<<Str(UUID_B), Str(UUID_A)>>)

\* the values C3 names: those that fail the setter's predicate
FailsPredicate(op, arg) ==
    CASE op = "setOrganizationId" -> ~isValidUUID(arg)
      [] op = "setTitle"          -> ~isNonEmptyString(arg)
      [] op = "setId"             -> isDefined(arg) /\ arg # Str("") /\ ~isValidUUID(arg)
      [] op = "setDescription"    -> isDefined(arg) /\ arg.k # "string"
      [] OTHER                    -> FALSE

\* the Role build() returned holds the builder's fields, and no others
BuildReflectsBuilder ==
    BuildReturned =>
        \A field \in ROLE_FIELDS : RoleGet(roleResult.value, field) = roleBuilder[field]

\* C3: a setter called with a value that fails its predicate throws and
\* leaves every field of the builder unchanged, so a later build() reflects
\* only the values stored by successful calls.
C3_InvalidSetterThrowsUnchanged ==
    [][ /\ FailsPredicate(roleResult'.op, roleResult'.arg) =>
            /\ roleResult'.kind = "threw"
            /\ roleBuilder' = roleBuilder
        /\ BuildReflectsBuilder' ]_vars

\* setTitle threw on a builder that keeps the title an earlier call stored
C3_Witness ==
    /\ roleResult.op = "setTitle"
    /\ roleResult.arg = Num(5)
    /\ roleResult.kind = "threw"
    /\ roleBuilder.title = Str("MockOrgRoleTitle")
    /\ roleBuilder.id = Str(UUID_A)

\* C4: setDescription and setId called with undefined, null or the empty
\* string do not throw and leave the builder unchanged (a stored description
\* or id is kept); a builder on which only the required setters succeeded
\* builds a Role with no description, id or aclKey.
C4_OptionalSettersIgnoreEmpty ==
    [][ /\ ( /\ roleResult'.op \in {"setDescription", "setId"}
             /\ roleResult'.arg \in {Undefined, Null, Str("")} ) =>
            /\ roleResult'.kind = "returned"
            /\ roleBuilder' = roleBuilder
        /\ ( /\ BuildReturned'
             /\ roleBuilder'.description = Undefined
             /\ roleBuilder'.id = Undefined ) =>
            DOMAIN roleResult'.value \cap {"description", "id", "aclKey"} = {} ]_vars

\* setId(null) returned on a builder that keeps its id
C4_Witness ==
    /\ roleResult.op = "setId"
    /\ roleResult.arg = Null
    /\ roleResult.kind = "returned"
    /\ roleBuilder.id = Str(UUID_A)
    /\ roleBuilder.description = Str("MockOrgRoleDescription")

---------------------------------------------------------------------------
(* properties of the API functions *)

(* The route each function's doc comment gives, below the base URL of the  *)
(* function's API (the doc comments of api/DataApi.js and LinkingApi spell  *)
(* the API's own segment out, the others leave it out), with the           *)
(* placeholders filled from the call's arguments.                          *)

Route(method, url) == [method |-> method, url |-> url]

FqnPath(fqn) == Path(<<Get(fqn, "namespace"), Get(fqn, "name")>>)

DocRoute_DataApi(fn, args) ==
    CASE fn = "getAllEntitiesOfType" ->
             Route("GET", "/entitydata" \o FqnPath(args[1]))
      [] fn = "getAllEntitiesOfTypes" ->
             Route("PUT", "/entitydata/multiple")
      [] fn = "getAllEntitiesOfTypeInSet" ->
             Route("GET", "/entitydata" \o FqnPath(args[1]) \o Path(<<args[2]>>))
      [] fn = "createEntity" ->
             Route("POST", "/entitydata")
      [] fn = "getEntitySetData" ->
             Route("GET", "/entitydata" \o Path(<<args[1]>>))
      [] fn = "getSelectedEntitySetData" ->
             Route("POST", "/entitydata" \o Path(<<args[1]>>) \o "/getData")
      [] fn = "createEntityData" ->
             Route("POST", "/entitydata" \o Path(<<args[1], args[2]>>))

DocRoute_LinkingApi(fn, args) ==
    CASE fn = "createLinkingEntityType" -> Route("POST", "/type")
      [] fn = "linkEntitySets"          -> Route("POST", "/set")
      [] fn = "linkEntities" ->
             Route("POST", "/set" \o Path(<<args[1], args[2], args[3]>>))
      [] fn = "setLinkedEntities" ->
             Route("PUT", "/set" \o Path(<<args[1], args[2], args[3]>>))
      [] fn = "removeLinkedEntities" ->
             Route("DELETE", "/set" \o Path(<<args[1], args[2], args[3]>>))
      [] fn = "addLinkedEntities" ->
             Route("PUT", "/set" \o Path(<<args[1], args[2], args[3], args[4]>>))
      [] fn = "removeLinkedEntity" ->
             Route("DELETE", "/set" \o Path(<<args[1], args[2], args[3], args[4]>>))

DocRoute_DataIntegrationApi(fn, args) == Route("POST", "/")

DocRoute_EntityDataModelApi(fn, args) ==
    CASE fn = "getEntityDataModel" -> Route("GET", "/")
      [] fn = "getSchema" -> Route("GET", "/schema" \o FqnPath(args[1]))
      [] fn = "getAllSchemas" -> Route("GET", "/schema")
      [] fn = "getAllSchemasInNamespace" -> Route("GET", "/schema" \o Path(<<args[1]>>))
      [] fn = "createSchema" -> Route("PUT", "/schema")
      [] fn = "addEntityTypesToSchema" -> Route("PUT", "/schema" \o FqnPath(args[1]))
      [] fn = "removeEntityTypesFromSchema" ->
             Route("DELETE", "/schema" \o FqnPath(args[1]))
      [] fn = "addPropertyTypesToSchema" ->
             Route("PUT", "/schema" \o FqnPath(args[1]) \o "/addPropertyTypes")
      [] fn = "removePropertyTypesFromSchema" ->
             Route("DELETE", "/schema" \o FqnPath(args[1]) \o "/deletePropertyTypes")
      [] fn = "getAllEntitySets" ->
             Route("GET", "/entity/set"
                          \o (IF isNil(args[1]) THEN ""
                              ELSE "?isOwner=" \o TemplateString(Bool(~Falsy(args[1])))))
      [] fn = "createEntitySets" -> Route("POST", "/entity/set")
      [] fn = "getEntityType" -> Route("GET", "/entity/type" \o Path(<<args[1]>>))
      [] fn = "getAllEntityTypes" -> Route("GET", "/entity/type")
      [] fn = "createEntityType" -> Route("POST", "/entity/type")
      [] fn = "deleteEntityType" -> Route("DELETE", "/entity/type" \o Path(<<args[1]>>))
      [] fn = "updatePropertyTypesForEntityType" ->
             Route("PATCH", "/entity/type" \o Path(<<args[1]>>))
      [] fn = "getPropertyType" -> Route("GET", "/property/type" \o Path(<<args[1]>>))
      [] fn = "getAllPropertyTypes" -> Route("GET", "/property/type")
      [] fn = "getAllPropertyTypesInNamespace" ->
             Route("GET", "/namespace" \o Path(<<args[1]>>) \o "/property/type")
      [] fn = "createPropertyType" -> Route("POST", "/property/type")
      [] fn = "deletePropertyType" ->
             Route("DELETE", "/property/type" \o FqnPath(args[2]))

\* the functions whose doc comment gives no route
UNDOCUMENTED ==
    {"downloadAllEntitiesOfType", "downloadAllEntitiesOfTypeInSet", "getEntitySetDataFileUrl"}

DocRoute(api, fn, args) ==
    CASE api = "DataApi"            -> DocRoute_DataApi(fn, args)
      [] api = "LinkingApi"         -> DocRoute_LinkingApi(fn, args)
      [] api = "DataIntegrationApi" -> DocRoute_DataIntegrationApi(fn, args)
      [] api = "EntityDataModelApi" -> DocRoute_EntityDataModelApi(fn, args)

Calling(apis) == call # NoCall /\ call.api \in apis

RejectedAtCall ==
    /\ promise.state = "rejected"
    /\ promise.by = "validation"
    /\ promise.value.k = "string"
    /\ requests = <<>>

\* C8: a call of an API function that takes parameters, with undefined for
\* its first argument, issues no HTTP request (isOwner, the one parameter of
\* getAllEntitySets, is documented as optional and left out).
C8_InvalidArgumentNeverRequests ==
    (/\ call # NoCall
     /\ call.args # <<>>
     /\ call.fn # "getAllEntitySets"
     /\ call.args[1] = Undefined)
    => requests = <<>>

\* C9: a call of an API function with a documented route either is rejected
\* by a parameter check, with the check's message and without a request, or
\* has issued exactly one request, with the method and the URL of the
\* function's doc comment.
C9_RejectedOrDocumentedRequest ==
    (call # NoCall /\ call.fn \notin UNDOCUMENTED)
    => \/ RejectedAtCall
       \/ /\ Len(requests) = 1
          /\ Route(requests[1].method, requests[1].url)
                = DocRoute(call.api, call.fn, call.args)

SWALLOWING_APIS == {"DataApi", "EntityDataModelApi"}

FailedRequest == requests # <<>> /\ requests[1].result.k = "error"

\* C10: in DataApi and EntityDataModelApi a failed HTTP request leaves the
\* returned promise fulfilled with undefined and the error logged exactly
\* once, by LOG.error; a rejected promise was rejected by a parameter check,
\* before any request; and once the request has settled so has the promise.
C10_HttpFailureLoggedAndSwallowed ==
    Calling(SWALLOWING_APIS)
    => /\ FailedRequest
          => /\ promise = [state |-> "fulfilled", value |-> Undefined, by |-> "catch"]
             /\ logged = <<LogCall("error", requests[1].result.error, <<>>)>>
       /\ promise.state = "rejected" => RejectedAtCall
       /\ (requests # <<>> /\ requests[1].result # Pending)
          => promise.state \in {"fulfilled", "rejected"}

C10_Witness ==
    /\ Calling(SWALLOWING_APIS)
    /\ FailedRequest
    /\ promise.state = "fulfilled"

PROPAGATING_APIS == {"LinkingApi", "DataIntegrationApi"}

\* C11: in LinkingApi and DataIntegrationApi a failed HTTP request leaves
\* the error logged by LOG.error and the returned promise rejected with that
\* same error; the promise is not fulfilled.
C11_HttpFailureLoggedAndPropagated ==
    (Calling(PROPAGATING_APIS) /\ FailedRequest)
    => /\ promise = [state |-> "rejected", value |-> requests[1].result.error,
                     by |-> "catch"]
       /\ logged = <<LogCall("error", requests[1].result.error, <<>>)>>

C11_Witness ==
    /\ Calling(PROPAGATING_APIS)
    /\ FailedRequest
    /\ promise.state = "rejected"

SucceededRequest == requests # <<>> /\ requests[1].result.k = "response"

IN_SET_FUNCTIONS == {"getAllEntitiesOfTypeInSet", "downloadAllEntitiesOfTypeInSet"}

\* C13: given a valid entityTypeFqn, the two ...InSet functions reject with
\* the entitySetName message, without a request, exactly when entitySetName
\* is not a non-empty string, and otherwise issue
\* GET /entitydata/{namespace}/{name}/{entitySetName}.
C13_EntitySetNameChecked ==
    (/\ call # NoCall
     /\ call.fn \in IN_SET_FUNCTIONS
     /\ isValidFqnObjectLiteral(call.args[1]))
    => IF isNonEmptyString(call.args[2])
       THEN /\ Len(requests) = 1
            /\ requests[1].method = "GET"
            /\ requests[1].url = "/entitydata" \o FqnPath(call.args[1])
                                    \o "/" \o call.args[2].s
       ELSE /\ promise.state = "rejected"
            /\ promise.value
                  = Str("invalid parameter: entitySetName must be a non-empty string")
            /\ requests = <<>>

ACCEPTED_FILE_TYPES == {"csv", "CSV", "json", "JSON"}

LowerCase(fileType) == IF fileType \in {"csv", "CSV"} THEN "csv" ELSE "json"

\* C14: getEntitySetDataFileUrl returns null when entitySetId is not a valid
\* UUID or fileType is not one of csv, CSV, json, JSON, and otherwise the
\* URL <base>/entitydata/<entitySetId>?fileType=<t>, t the lower-case form
\* of fileType.
C14_FileUrl ==
    (call # NoCall /\ call.fn = "getEntitySetDataFileUrl")
    => LET entitySetId == call.args[1]
           fileType == call.args[2]
       IN  /\ requests = <<>>
           /\ promise.returned =
                 IF /\ isValidUuid(entitySetId)
                    /\ fileType.k = "string"
                    /\ fileType.s \in ACCEPTED_FILE_TYPES
                 THEN Str(DATA_API_BASE_URL \o "/entitydata/" \o entitySetId.s
                          \o "?fileType=" \o LowerCase(fileType.s))
                 ELSE Null

\* C15: deletePropertyType with a valid propertyTypeId and a valid
\* propertyTypeFqn issues one DELETE to /property/type/{namespace}/{name},
\* namespace and name being those of propertyTypeFqn.
C15_DeletePropertyTypeRoute ==
    (/\ call # NoCall
     /\ call.fn = "deletePropertyType"
     /\ isValidUUID(call.args[1])
     /\ isValidFqnObjectLiteral(call.args[2]))
    => /\ Len(requests) = 1
       /\ requests[1].method = "DELETE"
       /\ requests[1].url = "/property/type/" \o call.args[2].o.namespace.s
                               \o "/" \o call.args[2].o.name.s

BULK_MESSAGE == "invalid parameter: bulkDataCreation must be a non-empty object"

\* what C16 says of a call with an argument that is no non-empty object, and
\* of the request issued otherwise
C16_RejectsOrPosts ==
    (call # NoCall /\ call.fn = "createEntityAndAssociationData")
    => LET bulkDataCreation == call.args[1]
       IN  IF bulkDataCreation = Undefined \/ ~isNonEmptyObject(bulkDataCreation)
           THEN /\ promise.state = "rejected"
                /\ promise.value = Str(BULK_MESSAGE)
                /\ logged = <<LogCall("error", Str(BULK_MESSAGE), <<>>)>>
                /\ requests = <<>>
           ELSE /\ Len(requests) = 1
                /\ requests[1].method = "POST"
                /\ requests[1].url = "/"
                /\ requests[1].args = <<bulkDataCreation>>

\* C16: createEntityAndAssociationData rejects with its message, logged
\* once and without a request, when bulkDataCreation is undefined or not a
\* non-empty object; otherwise it POSTs bulkDataCreation to "/" and, when
\* the request succeeds, its promise resolves without a value.
C16_BulkDataCreation ==
    /\ C16_RejectsOrPosts
    /\ (/\ call # NoCall
        /\ call.fn = "createEntityAndAssociationData"
        /\ SucceededRequest)
       => promise = [state |-> "fulfilled", value |-> Undefined, by |-> "then"]

RejectedWith(msg) == promise.state = "rejected" /\ promise.value = Str(msg)

NonEmptyStringField(value, field) ==
    /\ value.k = "object"
    /\ field \in DOMAIN value.o
    /\ value.o[field].k = "string"
    /\ value.o[field].s # ""

\* a fully qualified name with a non-empty string for namespace and for name
ValidFqn(value) ==
    NonEmptyStringField(value, "namespace") /\ NonEmptyStringField(value, "name")

\* the checks of createEntityType and createPropertyType before the FQN's
EarlierChecksPass(type) ==
    /\ type.k = "object"
    /\ DOMAIN type.o # {}
    /\ ("id" \in DOMAIN type.o /\ type.o.id # Undefined) => isValidUUID(type.o.id)

\* C17: getSchema, createSchema and deletePropertyType reject with their
\* "must be a valid FQN object literal" message exactly when namespace or
\* name of the FQN argument is not a non-empty string, and createEntityType
\* and createPropertyType, their earlier checks passed, reject with "must
\* form a valid FQN" exactly when namespace or name of the argument is not
\* a non-empty string.
C17_FqnValidIffBothNonEmpty ==
    call # NoCall =>
    /\ call.fn \in {"getSchema", "createSchema"}
       => (RejectedWith("invalid parameter: schemaFqn must be a valid FQN object literal")
           <=> ~ValidFqn(call.args[1]))
    /\ (call.fn = "deletePropertyType" /\ isValidUUID(call.args[1]))
       => (RejectedWith("invalid parameter: propertyTypeFqn must be a valid FQN object literal")
           <=> ~ValidFqn(call.args[2]))
    /\ (call.fn = "createEntityType" /\ EarlierChecksPass(call.args[1]))
       => (RejectedWith("invalid parameters: entityType.namespace and entityType.name must form a valid FQN")
           <=> ~ValidFqn(call.args[1]))
    /\ (call.fn = "createPropertyType" /\ EarlierChecksPass(call.args[1]))
       => (RejectedWith("invalid parameters: propertyType.namespace and propertyType.name must form a valid FQN")
           <=> ~ValidFqn(call.args[1]))

C17_Witness ==
    /\ call # NoCall
    /\ call.fn = "createEntityType"
    /\ EarlierChecksPass(call.args[1])
    /\ NonEmptyStringField(call.args[1], "namespace")
    /\ ~NonEmptyStringField(call.args[1], "name")
    /\ RejectedWith("invalid parameters: entityType.namespace and entityType.name must form a valid FQN")

\* an array, empty or not, of elements that all satisfy the predicate
ArrayOfUuids(value) ==
    value.k = "array" /\ \A i \in DOMAIN value.a : isValidUUID(value.a[i])

ArrayOfPermissions(value) ==
    value.k = "array" /\ \A i \in DOMAIN value.a : isValidPermission(value.a[i])

BuilderRejects(accessCheck) ==
    \/ setAclKey(NewAccessCheckBuilder, NoHeap, Get(accessCheck, "aclKey")).threw
    \/ setPermissions(NewAccessCheckBuilder, NoHeap, Get(accessCheck, "permissions")).threw

\* what C18 says of the calls that return false
C18_FalseWhenRejected ==
    acResult.op = "isValid"
    => /\ acResult.kind = "returned"
       /\ (\/ acResult.arg \in {Undefined, Null}
           \/ ~has(acResult.arg, "aclKey")
           \/ ~has(acResult.arg, "permissions")
           \/ BuilderRejects(acResult.arg))
          => /\ acResult.value = FALSE
             /\ Len(acResult.logs) = 1
             /\ acResult.logs[1].level = "error"

\* C18: isValid(accessCheck) never throws; it returns false, having logged
\* an error, when accessCheck is undefined or null, lacks aclKey or
\* permissions, or holds a value the builder rejects; and it returns true
\* only when aclKey is an array of valid UUIDs and permissions an array of
\* valid Permissions.
C18_IsValid ==
    /\ C18_FalseWhenRejected
    /\ (acResult.op = "isValid" /\ acResult.kind = "returned" /\ acResult.value = TRUE)
       => /\ ArrayOfUuids(Get(acResult.arg, "aclKey"))
          /\ ArrayOfPermissions(Get(acResult.arg, "permissions"))

RoundTripArg(value) ==
    /\ role # NoRole
    /\ value \in {Role_toObject(role), Role_toImmutable(role)}

Check(passes, msg) == [passes |-> passes, msg |-> msg]

\* the message of the earliest check that fails, or "" when all pass
FirstFailure(checks) ==
    LET failing == {i \in DOMAIN checks : ~checks[i].passes}
    IN  IF failing = {} THEN ""
        ELSE checks[CHOOSE i \in failing : \A j \in failing : i <= j].msg

FailureCount(checks) == Cardinality({i \in DOMAIN checks : ~checks[i].passes})

LINKING_CHECKED == {"linkEntities", "setLinkedEntities", "removeLinkedEntities",
                    "addLinkedEntities", "removeLinkedEntity"}

WITH_LINKED_ENTITY == {"addLinkedEntities", "removeLinkedEntity"}

\* the checks of a LinkingApi function, in the order syncId, entitySetId,
\* entityId, linkedEntityId
LinkingChecks(fn, args) ==
    <<Check(isValidUUID(args[1]), "invalid parameter: syncId must be a valid UUID"),
      Check(isValidUUID(args[2]), "invalid parameter: entitySetId must be a valid UUID"),
      Check(args[3].k = "string" /\ args[3].s # "",
            "invalid parameter: entityId must be a non-empty string")>>
    \o IF fn \in WITH_LINKED_ENTITY
       THEN <<Check(args[4].k = "string" /\ args[4].s # "",
                    "invalid parameter: linkedEntityId must be a non-empty string")>>
       ELSE <<>>

NonEmptyArrayField(type, field) ==
    /\ type.k = "object"
    /\ field \in DOMAIN type.o
    /\ type.o[field].k = "array"
    /\ type.o[field].a # <<>>

\* every element of the array in the field passes; true of what is no array
ElementsOfField(type, field, valid) ==
    NonEmptyArrayField(type, field)
    => \A i \in DOMAIN type.o[field].a :
           IF valid = "fqn" THEN ValidFqn(type.o[field].a[i])
           ELSE isValidUUID(type.o[field].a[i])

\* the checks of createEntityType, in the order non-empty object, id, FQN,
\* schemas, key, properties
EntityTypeChecks(type) ==
    <<Check(type.k = "object" /\ DOMAIN type.o # {},
            "invalid parameter: entityType must be a non-empty object literal"),
      Check(Get(type, "id") # Undefined => isValidUUID(Get(type, "id")),
            "invalid parameter: entityType.id must be a valid UUID"),
      Check(ValidFqn(type),
            "invalid parameters: entityType.namespace and entityType.name must form a valid FQN"),
      Check(NonEmptyArrayField(type, "schemas"),
            "invalid parameter: entityType.schemas must be a non-empty array"),
      Check(ElementsOfField(type, "schemas", "fqn"),
            "invalid parameter: entityType.schemas must be an array of valid FQN object literals"),
      Check(NonEmptyArrayField(type, "key"),
            "invalid parameter: entityType.key must be a non-empty array"),
      Check(ElementsOfField(type, "key", "uuid"),
            "invalid parameter: entityType.key must be an array of valid UUIDs"),
      Check(NonEmptyArrayField(type, "properties"),
            "invalid parameter: entityType.properties must be a non-empty array"),
      Check(ElementsOfField(type, "properties", "uuid"),
            "invalid parameter: entityType.properties must be an array of valid UUIDs")>>

ChecksOfCall ==
    IF call.fn = "createEntityType"
    THEN EntityTypeChecks(call.args[1])
    ELSE LinkingChecks(call.fn, call.args)

\* C21: the parameter checks run in a fixed order and the first failing one
\* alone decides the rejection: a call of a checked LinkingApi function or of
\* createEntityType that fails some check is rejected with the message of
\* the earliest failing check, and a call that fails none is not rejected at
\* the call.
C21_EarliestCheckDecides ==
    (call # NoCall /\ call.fn \in LINKING_CHECKED \cup {"createEntityType"})
    => IF FirstFailure(ChecksOfCall) = ""
       THEN ~(promise.state = "rejected" /\ promise.by = "validation")
       ELSE RejectedAtCall /\ promise.value = Str(FirstFailure(ChecksOfCall))

C21_Witness ==
    /\ call # NoCall
    /\ call.fn = "createEntityType"
    /\ FailureCount(EntityTypeChecks(call.args[1])) >= 2
    /\ ~EntityTypeChecks(call.args[1])[3].passes
    /\ EntityTypeChecks(call.args[1])[2].passes
    /\ RejectedWith("invalid parameters: entityType.namespace and entityType.name must form a valid FQN")

\* the array parameter of a function: its position, its name, what its
\* elements are, and the check that comes before it
ARRAY_PARAMETERS ==
    [addEntityTypesToSchema           |-> [at |-> 2, name |-> "entityTypeFqns", of |-> "fqn"],
     removeEntityTypesFromSchema      |-> [at |-> 2, name |-> "entityTypeFqns", of |-> "fqn"],
     addPropertyTypesToSchema         |-> [at |-> 2, name |-> "propertyTypeFqns", of |-> "fqn"],
     removePropertyTypesFromSchema    |-> [at |-> 2, name |-> "propertyTypeFqns", of |-> "fqn"],
     updatePropertyTypesForEntityType |-> [at |-> 2, name |-> "propertyTypeIds", of |-> "uuid"],
     createEntitySets                 |-> [at |-> 1, name |-> "entitySets", of |-> "fqn"]]

ElementMessage(parameter) ==
    "invalid parameter: " \o parameter.name \o
    (IF parameter.of = "uuid" THEN " must be an array of valid UUIDs"
     ELSE " must be an array of valid FQN object literals")

\* the check of the parameter before the array passes
FirstParameterPasses ==
    CASE call.fn = "createEntitySets" -> TRUE
      [] call.fn = "updatePropertyTypesForEntityType" -> isValidUUID(call.args[1])
      [] OTHER -> ValidFqn(call.args[1])

ValidElement(of, element) ==
    CASE of = "uuid"   -> isValidUUID(element)
      [] of = "object" -> element.k = "object" /\ DOMAIN element.o # {}
      [] OTHER         -> ValidFqn(element)

\* the body of the one request: data of the config for DELETE, else the
\* second argument
RequestBody ==
    IF requests[1].method = "DELETE" THEN Get(requests[1].args[1], "data")
    ELSE requests[1].args[1]

ArrayParameterChecked(parameter) ==
    LET array == call.args[parameter.at]
    IN  IF ~(array.k = "array" /\ array.a # <<>>)
        THEN /\ RejectedAtCall
             /\ RejectedWith("invalid parameter: " \o parameter.name \o " must be a non-empty array")
        ELSE IF \E i \in DOMAIN array.a : ~ValidElement(parameter.of, array.a[i])
        THEN RejectedAtCall /\ RejectedWith(ElementMessage(parameter))
        ELSE /\ ~RejectedAtCall
             /\ Len(requests) = 1
             /\ RequestBody = array

\* the claim for five of the functions, and for createEntitySets with a
\* valid element taken to be a non-empty object
C22_ElementsAsChecked ==
    (/\ call # NoCall
     /\ call.fn \in DOMAIN ARRAY_PARAMETERS
     /\ FirstParameterPasses)
    => ArrayParameterChecked(
           IF call.fn = "createEntitySets"
           THEN [ARRAY_PARAMETERS[call.fn] EXCEPT !.of = "object"]
           ELSE ARRAY_PARAMETERS[call.fn])

\* C22: for the array-valued FQN/UUID parameter of addEntityTypesToSchema,
\* removeEntityTypesFromSchema, addPropertyTypesToSchema,
\* removePropertyTypesFromSchema, updatePropertyTypesForEntityType and
\* createEntitySets: an empty or non-array argument is rejected with "must
\* be a non-empty array"; a non-empty array is rejected with the message
\* about its elements iff some element, at any position, is not valid; and
\* only an array of valid elements leads to a request, whose body is that
\* array.
C22_ArrayParameters ==
    (/\ call # NoCall
     /\ call.fn \in DOMAIN ARRAY_PARAMETERS
     /\ FirstParameterPasses)
    => ArrayParameterChecked(ARRAY_PARAMETERS[call.fn])

\* the position of the earliest failing check (some check fails)
FirstFailing(checks) ==
    CHOOSE i \in DOMAIN checks :
        /\ ~checks[i].passes
        /\ \A j \in DOMAIN checks : ~checks[j].passes => i <= j

\* C23: when a parameter check of linkEntities, setLinkedEntities,
\* removeLinkedEntities, addLinkedEntities or removeLinkedEntity fails,
\* LOG.error has been called exactly once, with the message and the
\* offending value, the promise is rejected with that message string, and
\* no request is issued.
C23_CheckFailureLoggedOnce ==
    (/\ call # NoCall
     /\ call.api = "LinkingApi"
     /\ call.fn \in LINKING_CHECKED
     /\ FirstFailure(LinkingChecks(call.fn, call.args)) # "")
    => LET checks == LinkingChecks(call.fn, call.args)
           at == FirstFailing(checks)
       IN  /\ logged = <<LogCall("error", Str(checks[at].msg), <<call.args[at]>>)>>
           /\ promise.state = "rejected"
           /\ promise.value = Str(checks[at].msg)
           /\ requests = <<>>

C23_Witness ==
    /\ call # NoCall
    /\ call.fn = "removeLinkedEntities"
    /\ isValidUUID(call.args[1])
    /\ call.args[2] = Str("not-a-uuid")
    /\ Len(logged) = 1
    /\ logged[1].args = <<Str("not-a-uuid")>>
    /\ promise.state = "rejected"

\* the name of the argument of a create function and its fields other than id
TYPE_FIELDS ==
    [createEntityType   |-> [name   |-> "entityType",
                             fields |-> {"namespace", "name", "schemas", "key", "properties"}],
     createPropertyType |-> [name   |-> "propertyType",
                             fields |-> {"namespace", "name", "datatype", "schemas"}]]

IdMessage(fn) == "invalid parameter: " \o TYPE_FIELDS[fn].name \o ".id must be a valid UUID"

\* C24: createEntityType and createPropertyType treat id as optional: with a
\* non-empty object for argument, an undefined id passes the id check (the
\* call is not rejected for its id, and is sent when the other fields are
\* valid), any other id that is not a valid UUID, null and the empty string
\* included, is rejected with "<argument>.id must be a valid UUID", and no
\* other field is optional: the call is rejected when one is undefined.
C24_OnlyIdOptional ==
    (/\ call # NoCall
     /\ call.fn \in DOMAIN TYPE_FIELDS
     /\ call.args[1].k = "object"
     /\ DOMAIN call.args[1].o # {})
    => LET type == call.args[1]
           id == Get(type, "id")
           isMock == \A f \in TYPE_FIELDS[call.fn].fields :
                         Get(type, f) = (IF call.fn = "createEntityType"
                                         THEN MockEntityType[f] ELSE MockPropertyType[f])
       IN  /\ id = Undefined => ~RejectedWith(IdMessage(call.fn))
           /\ (id = Undefined /\ isMock) => (Len(requests) = 1 /\ ~RejectedAtCall)
           /\ (id # Undefined /\ ~(id.k = "string" /\ id.s \in UUIDS))
              => (RejectedAtCall /\ RejectedWith(IdMessage(call.fn)))
           /\ \A f \in TYPE_FIELDS[call.fn].fields :
                  Get(type, f) = Undefined => RejectedAtCall

C24_Witness ==
    /\ call # NoCall
    /\ call.fn = "createPropertyType"
    /\ call.args[1].k = "object"
    /\ "id" \in DOMAIN call.args[1].o
    /\ call.args[1].o.id = Undefined
    /\ Len(requests) = 1

\* a value that is neither false, 0, the empty string, null nor undefined
Truthy(value) ==
    ~(\/ value.k \in {"undefined", "null"}
      \/ value = Bool(FALSE)
      \/ value = Num(0)
      \/ value = Str(""))

\* C25: getAllEntitySets(isOwner) requests "/entity/set" with no query
\* string when isOwner is undefined or null, "/entity/set?isOwner=true" when
\* isOwner is truthy and "/entity/set?isOwner=false" when it is falsy and
\* neither null nor undefined; it is a GET, and the promise is never
\* rejected, whatever the argument.
C25_GetAllEntitySets ==
    (call # NoCall /\ call.fn = "getAllEntitySets")
    => LET isOwner == call.args[1]
       IN  /\ Len(requests) = 1
           /\ requests[1].method = "GET"
           /\ requests[1].url =
                  (IF isOwner \in {Undefined, Null} THEN "/entity/set"
                   ELSE IF Truthy(isOwner) THEN "/entity/set?isOwner=true"
                   ELSE "/entity/set?isOwner=false")
           /\ promise.state # "rejected"

C25_Witness ==
    /\ call # NoCall
    /\ call.fn = "getAllEntitySets"
    /\ call.args[1] = Num(0)
    /\ requests[1].url = "/entity/set?isOwner=false"
    /\ requests[1].result # Pending

---------------------------------------------------------------------------
(* specifications *)

RoleInit ==
    /\ roleBuilder = NewRoleBuilder
    /\ roleResult = [op |-> "new RoleBuilder", arg |-> Undefined, kind |-> "returned"]
    /\ role = NoRole

AcInit ==
    /\ heap = <<>>
    /\ acBuilder = NewAccessCheckBuilder
    /\ acResult = [op |-> "new AccessCheckBuilder", arg |-> Undefined, kind |-> "returned"]
    /\ accessChecks = <<>>

ApiInit ==
    /\ call = NoCall
    /\ promise = [state |-> "none"]
    /\ requests = <<>>
    /\ logged = <<>>

Init == RoleInit /\ AcInit /\ ApiInit

RoleNext ==
    \/ RoleBuilder_constructor
    \/ RoleBuilder_setDescription
    \/ RoleBuilder_setId
    \/ RoleBuilder_setOrganizationId
    \/ RoleBuilder_setPrincipal
    \/ RoleBuilder_setTitle
    \/ RoleBuilder_build
    \/ Role_toObject_call
    \/ Role_valueOf_call

RoleSpec == Init /\ [][RoleNext]_vars

AccessCheckNext ==
    \/ AccessCheckBuilder_constructor
    \/ AccessCheckBuilder_setAclKey
    \/ AccessCheckBuilder_setPermissions
    \/ AccessCheckBuilder_build

AccessCheckSpec == Init /\ [][AccessCheckNext]_vars

IsValidNext ==
    \/ AccessCheck_isValid

IsValidSpec == Init /\ [][IsValidNext]_vars

\* the builder's calls, and what else a client can do to its objects
ClientNext ==
    \/ AccessCheckNext
    \/ Client_keep
    \/ Client_push
    \/ Client_writeField

ClientSpec == Init /\ [][ClientNext]_vars

Next ==
    \/ getAllEntitiesOfType
    \/ downloadAllEntitiesOfType
    \/ getAllEntitiesOfTypes
    \/ getAllEntitiesOfTypeInSet
    \/ downloadAllEntitiesOfTypeInSet
    \/ createEntity
    \/ getEntitySetData
    \/ getEntitySetDataFileUrl
    \/ getSelectedEntitySetData
    \/ createEntityData
    \/ createLinkingEntityType
    \/ linkEntitySets
    \/ linkEntities
    \/ setLinkedEntities
    \/ removeLinkedEntities
    \/ addLinkedEntities
    \/ removeLinkedEntity
    \/ createEntityAndAssociationData
    \/ getEntityDataModel
    \/ getSchema
    \/ getAllSchemas
    \/ getAllSchemasInNamespace
    \/ createSchema
    \/ addEntityTypesToSchema
    \/ removeEntityTypesFromSchema
    \/ addPropertyTypesToSchema
    \/ removePropertyTypesFromSchema
    \/ getAllEntitySets
    \/ createEntitySets
    \/ getEntityType
    \/ getAllEntityTypes
    \/ createEntityType
    \/ deleteEntityType
    \/ updatePropertyTypesForEntityType
    \/ getPropertyType
    \/ getAllPropertyTypes
    \/ getAllPropertyTypesInNamespace
    \/ createPropertyType
    \/ deletePropertyType
    \/ HttpSuccess
    \/ HttpFailure
    \/ Done

Spec == Init /\ [][Next]_vars

====
